---- MODULE Spec2Model ----
(***************************************************************************)
(* University report generator: the ingestion loop of DataAggregator, the  *)
(* retry/fallback logic of ReportGenerator and the web / CLI runs that     *)
(* drive the pipeline, as state machines.                                  *)
(*                                                                         *)
(*   Spec        the web job table (TASKS) and the CLI program             *)
(*   FairSpec    Spec with the event loop's scheduling as weak fairness    *)
(*   SpecIngest  DataAggregator.ingest, one locator / link per step        *)
(*   SpecGen     ReportGenerator.generate_report, one API attempt per step *)
(*   SpecData    DataProcessor.clean_data followed by analyze_data         *)
(*   SpecValidate  ReportGenerator.validate_report                         *)
(*   SpecPipeline  clean_data, analyze_data, then validate_report on the   *)
(*                 analysis, as the web and CLI runs call them             *)
(***************************************************************************)
EXTENDS Integers, Sequences, FiniteSets, TLC

VARIABLES
    \* ---- DataAggregator.ingest ----
    sources,      \* the list of locators passed to ingest
    cache,        \* the cache flag passed to ingest
    idx,          \* position of the for-loop over sources (1-based)
    csv_links,    \* links of the listing being expanded
    linkIdx,      \* position of the inner for-loop over csv_links
    frames,       \* the list of tables collected so far
    cacheFiles,   \* files of cache_dir written by this ingest: name -> table
    ingPc,        \* "loop" | "links" | "returned" | "raised"
    combined_df,  \* the table ingest returns
    ingLog        \* what each read / fetch of the environment gave (history)

ingVars == <<sources, cache, idx, csv_links, linkIdx, frames, cacheFiles,
             ingPc, combined_df, ingLog>>

VARIABLES
    \* ---- ReportGenerator.generate_report ----
    data_summary, \* the analysis passed to generate_report
    report_type,  \* the report kind passed to generate_report
    prompt,       \* the prompt built by _create_prompt
    attempt,      \* loop variable of _call_model_with_retry
    apiLog,       \* outcome of each call of the generation API (history)
    sleeps,       \* argument of each time.sleep, in order (history)
    genPc,        \* "start" | "calling" | "returned" | "raised"
    genReturn     \* what generate_report returned: report text and usage_info

genVars == <<data_summary, report_type, prompt, attempt, apiLog, sleeps,
             genPc, genReturn>>

VARIABLES
    \* ---- the web application and the CLI program ----
    proc,             \* which program this process is: "web" | "cli" | "none"
    api_key_present,  \* whether Config found GEMINI_API_KEY
    AGGREGATION_MODE, \* "local" | "api"
    TASKS,            \* the task store: task_id -> progress, status, filename
    bg,               \* the background coroutine of each task
    loopOwner,        \* the task whose coroutine holds the event loop, or 0
    lastPoll,         \* the last answer of api_progress
    cli               \* the CLI program

runVars == <<proc, api_key_present, AGGREGATION_MODE, TASKS, bg, loopOwner,
             lastPoll, cli>>

VARIABLES
    \* ---- DataProcessor.clean_data and analyze_data ----
    raw_df,             \* the table passed to clean_data
    cleaned,            \* the table clean_data returns
    duplicates_removed, \* the count clean_data reports
    empty_cols,         \* the names of the columns clean_data dropped
    analysis_dict,      \* the dict analyze_data returns
    dpPc                \* "start" | "cleaned" | "analyzed" | "idle"

dpVars == <<raw_df, cleaned, duplicates_removed, empty_cols, analysis_dict,
           dpPc>>

VARIABLES
    \* ---- ReportGenerator.validate_report ----
    report_text,      \* the narrative passed to validate_report
    val_data_summary, \* the data_summary passed to validate_report
    validation,       \* the dict validate_report returns
    valPc             \* "start" | "returned" | "idle"

valVars == <<report_text, val_data_summary, validation, valPc>>

procVars == <<dpVars, valVars>>

vars == <<ingVars, genVars, runVars, procVars>>

(***************************************************************************)
(* Bounds of the model.                                                    *)
(***************************************************************************)
MaxSources == 2
MaxRows == 2
MaxTasks == 2
MaxTableRows == 3

(***************************************************************************)
(* Small helpers.                                                          *)
(***************************************************************************)
Range(s) == {s[i] : i \in 1..Len(s)}

SeqsUpTo(S, n) == UNION {[1..k -> S] : k \in 0..n}

RECURSIVE SumSeq(_)
SumSeq(s) == IF s = <<>> THEN 0 ELSE s[1] + SumSeq(Tail(s))

(***************************************************************************)
(* Tables.  A table has an ordered list of column names and an ordered     *)
(* list of rows; a row maps each column name of its table to a cell.       *)
(* Cells are text; NA is the missing cell.                                 *)
(***************************************************************************)
NA == "NaN"

CellText == <<"r1", "r2", "r3", "r4", "r5", "r6">>

EmptyDir == [n \in {} |-> 0]

\* mutant: the empty check is missing
IsEmpty_Never(df) == FALSE

\* df.empty: no rows or no columns
IsEmpty(df) == Len(df.rows) = 0 \/ Len(df.cols) = 0

\* df[col] = val : a scalar broadcast to every row, the column added last
\* when it is new
SetColumn(df, col, val) ==
    [cols |-> IF col \in Range(df.cols) THEN df.cols ELSE Append(df.cols, col),
     rows |-> [i \in 1..Len(df.rows) |->
                 [c \in DOMAIN df.rows[i] \cup {col} |->
                     IF c = col THEN val ELSE df.rows[i][c]]]]

\* the columns of b that a lacks, in b's order
RECURSIVE NewCols(_, _)
NewCols(a, b) ==
    IF b = <<>> THEN <<>>
    ELSE IF b[1] \in Range(a) THEN NewCols(a, Tail(b))
         ELSE <<b[1]>> \o NewCols(Append(a, b[1]), Tail(b))

\* union of the columns of the frames, in order of first appearance
RECURSIVE UnionCols(_)
UnionCols(fs) ==
    IF fs = <<>> THEN <<>>
    ELSE LET rest == UnionCols(SubSeq(fs, 1, Len(fs) - 1))
         IN  rest \o NewCols(rest, fs[Len(fs)].cols)

Reindex(row, cols) ==
    [c \in Range(cols) |-> IF c \in DOMAIN row THEN row[c] ELSE NA]

\* mutant: only the rows of the last frame
AllRows_LastOnly(fs) == IF fs = <<>> THEN <<>> ELSE fs[Len(fs)].rows

RECURSIVE AllRows(_)
AllRows(fs) == IF fs = <<>> THEN <<>> ELSE fs[1].rows \o AllRows(Tail(fs))

\* pd.concat(frames, ignore_index=True, sort=False)
Concat(fs) ==
    LET cols == UnionCols(fs)
        rows == AllRows(fs)
    IN  [cols |-> cols,
         rows |-> [i \in 1..Len(rows) |-> Reindex(rows[i], cols)]]

(***************************************************************************)
(* Locators.  An address is a scheme flag and its path segments.           *)
(***************************************************************************)
Locators ==
    { [http |-> FALSE, segs |-> <<"data", "students", "a.csv">>],
      [http |-> FALSE, segs |-> <<"data", "finance", "a.csv">>],
      [http |-> TRUE,  segs |-> <<"data", "students">>],
      [http |-> TRUE,  segs |-> <<"download", "students", "b.csv">>] }

\* what a listing page can enumerate: the .csv hrefs found on it
Listings ==
    { <<>>,
      << <<"download", "students", "a.csv">> >>,
      << <<"download", "students", "a.csv">>,
         <<"download", "students", "b.csv">> >> }

\* src.startswith("http://") or src.startswith("https://")
IsUrl(src) == src.http

\* "/data/" in src
HasDataSegment(src) ==
    \E i \in 1..(Len(src.segs) - 1) : src.segs[i] = "data"

\* Path(src).name, link.split("/")[-1]
PathName(segs) == segs[Len(segs)]

\* the header row of the file found at an address
HeaderOf(segs) == IF "finance" \in Range(segs) THEN "biaya" ELSE "nama"

\* pd.read_csv of a file holding a header and n data rows
ReadCsv(segs, n) ==
    [cols |-> <<HeaderOf(segs)>>,
     rows |-> [i \in 1..n |-> [c \in {HeaderOf(segs)} |-> CellText[i]]]]

\* outcome of one read or fetch: -1 is a failure (missing, HTTP error,
\* unparsable), n >= 0 a file parsed with n data rows
Failed == -1
Outcomes == {Failed} \cup (0..MaxRows)

\* df.to_csv(cache_dir / name): one file per name, the last write wins
WriteCache(files, name, df) ==
    [n \in DOMAIN files \cup {name} |-> IF n = name THEN df ELSE files[n]]

LogEntry(i, j, kind, out) == [src |-> i, link |-> j, kind |-> kind, out |-> out]

(***************************************************************************)
(* DataAggregator.ingest                                                   *)
(***************************************************************************)
InitIngestVars ==
    /\ sources \in SeqsUpTo(Locators, MaxSources)
    /\ cache \in BOOLEAN
    /\ idx = 1
    /\ csv_links = <<>>
    /\ linkIdx = 0
    /\ frames = <<>>
    /\ cacheFiles = EmptyDir
    /\ ingPc = "loop"
    /\ combined_df = [cols |-> <<>>, rows |-> <<>>]
    /\ ingLog = <<>>

IdleIngestVars ==
    /\ sources = <<>>
    /\ cache = FALSE
    /\ idx = 1
    /\ csv_links = <<>>
    /\ linkIdx = 0
    /\ frames = <<>>
    /\ cacheFiles = EmptyDir
    /\ ingPc = "idle"
    /\ combined_df = [cols |-> <<>>, rows |-> <<>>]
    /\ ingLog = <<>>

\* mutant: no except clause around the loop body, a failed source ends ingest
SourceFailed_Propagates ==
    /\ idx' = idx
    /\ ingPc' = "raised"
    /\ UNCHANGED <<frames, cacheFiles>>

\* the except clause of one iteration of the loop over sources: the error is
\* printed and the loop goes on with the next source
SourceFailed ==
    /\ idx' = idx + 1
    /\ UNCHANGED <<frames, cacheFiles, ingPc>>

\* the except clause of one iteration of the loop over csv_links
LinkFailed ==
    UNCHANGED <<frames, cacheFiles>>

\* the stamping of a table read from a local path
StampLocal(df, src) ==
    SetColumn(SetColumn(df, "source_type", "local"),
              "source_file", PathName(src.segs))

\* the stamping of a table downloaded from a listing link
StampLink(df, link) ==
    SetColumn(SetColumn(df, "source_type", "api"),
              "source_file", PathName(link))

\* mutant: the single remote file is not stamped
StampRemote_Unstamped(df, src) == df

\* the stamping of a table read from a single remote file
StampRemote(df, src) ==
    SetColumn(SetColumn(df, "source_type", "api"),
              "source_file", PathName(src.segs))

\* else-branch of the loop body: a local CSV
IngestLocal ==
    /\ UNCHANGED <<genVars, runVars, procVars>>
    /\ ingPc = "loop"
    /\ idx <= Len(sources)
    /\ ~IsUrl(sources[idx])
    /\ \E out \in Outcomes :
         /\ ingLog' = Append(ingLog, LogEntry(idx, 0, "local", out))
         /\ IF out = Failed
            THEN SourceFailed
            ELSE LET df == ReadCsv(sources[idx].segs, out)
                     st == StampLocal(df, sources[idx])
                 IN  IF IsEmpty(df)
                     THEN /\ idx' = idx + 1
                          /\ UNCHANGED <<frames, cacheFiles, ingPc>>
                     ELSE /\ frames' = Append(frames, st)
                          /\ cacheFiles' =
                               IF cache
                               THEN WriteCache(cacheFiles,
                                               PathName(sources[idx].segs), st)
                               ELSE cacheFiles
                          /\ idx' = idx + 1
                          /\ UNCHANGED ingPc
    /\ UNCHANGED <<sources, cache, csv_links, linkIdx, combined_df>>

\* a URL without "/data/": one remote CSV
IngestRemoteFile ==
    /\ UNCHANGED <<genVars, runVars, procVars>>
    /\ ingPc = "loop"
    /\ idx <= Len(sources)
    /\ IsUrl(sources[idx])
    /\ ~HasDataSegment(sources[idx])
    /\ \E out \in Outcomes :
         /\ ingLog' = Append(ingLog, LogEntry(idx, 0, "remote", out))
         /\ IF out = Failed
            THEN SourceFailed
            ELSE /\ frames' = Append(frames,
                        StampRemote(ReadCsv(sources[idx].segs, out),
                                    sources[idx]))
                 /\ idx' = idx + 1
                 /\ UNCHANGED <<cacheFiles, ingPc>>
    /\ UNCHANGED <<sources, cache, csv_links, linkIdx, combined_df>>

\* _get_csv_links_from_api: any failure of the request or of the parse is
\* caught and gives the empty list
GetCsvLinksFromApi(fetched, page) == IF fetched THEN page ELSE <<>>

\* a URL with "/data/": the listing is fetched; no link, next source
IngestListing ==
    /\ UNCHANGED <<genVars, runVars, procVars>>
    /\ ingPc = "loop"
    /\ idx <= Len(sources)
    /\ IsUrl(sources[idx])
    /\ HasDataSegment(sources[idx])
    /\ \E fetched \in BOOLEAN, page \in Listings :
         LET links == GetCsvLinksFromApi(fetched, page)
         IN  /\ fetched \/ page = <<>>
             /\ ingLog' = Append(ingLog,
                    LogEntry(idx, 0, "listing",
                             IF fetched THEN Len(links) ELSE Failed))
             /\ IF links = <<>>
                THEN /\ idx' = idx + 1
                     /\ UNCHANGED <<csv_links, linkIdx, ingPc>>
                ELSE /\ csv_links' = links
                     /\ linkIdx' = 1
                     /\ ingPc' = "links"
                     /\ UNCHANGED idx
    /\ UNCHANGED <<sources, cache, frames, cacheFiles, combined_df>>

\* one iteration of the loop over csv_links; after the last link the outer
\* loop continues with the next source
IngestLink ==
    /\ UNCHANGED <<genVars, runVars, procVars>>
    /\ ingPc = "links"
    /\ linkIdx <= Len(csv_links)
    /\ \E out \in Outcomes :
         /\ ingLog' = Append(ingLog, LogEntry(idx, linkIdx, "link", out))
         /\ IF out = Failed
            THEN LinkFailed
            ELSE LET df == ReadCsv(csv_links[linkIdx], out)
                     st == StampLink(df, csv_links[linkIdx])
                 IN  IF IsEmpty(df)
                     THEN UNCHANGED <<frames, cacheFiles>>
                     ELSE /\ frames' = Append(frames, st)
                          /\ cacheFiles' =
                               IF cache
                               THEN WriteCache(cacheFiles,
                                        st.rows[1]["source_file"], st)
                               ELSE cacheFiles
    /\ IF linkIdx = Len(csv_links)
       THEN /\ idx' = idx + 1
            /\ ingPc' = "loop"
            /\ linkIdx' = 0
            /\ csv_links' = <<>>
       ELSE /\ linkIdx' = linkIdx + 1
            /\ UNCHANGED <<idx, ingPc, csv_links>>
    /\ UNCHANGED <<sources, cache, combined_df>>

\* after the loop: no frame raises ValueError, else the frames are combined
IngestCombine ==
    /\ UNCHANGED <<genVars, runVars, procVars>>
    /\ ingPc = "loop"
    /\ idx > Len(sources)
    /\ IF frames = <<>>
       THEN /\ ingPc' = "raised"
            /\ UNCHANGED combined_df
       ELSE /\ combined_df' = Concat(frames)
            /\ ingPc' = "returned"
    /\ UNCHANGED <<sources, cache, idx, csv_links, linkIdx, frames,
                   cacheFiles, ingLog>>

(***************************************************************************)
(* Text.  A text is the list of its lines; numbers are rendered the way    *)
(* Python's str() and the format spec .2f render them.                     *)
(***************************************************************************)
Digit == <<"0", "1", "2", "3", "4", "5", "6", "7", "8", "9">>

RECURSIVE IntStr(_)
IntStr(n) ==
    IF n < 10 THEN Digit[n + 1] ELSE IntStr(n \div 10) \o Digit[(n % 10) + 1]

\* f"{v:.2f}" of a value held in hundredths
Fmt2(h) ==
    IntStr(h \div 100) \o "." \o Digit[((h \div 10) % 10) + 1]
                              \o Digit[(h % 10) + 1]

RECURSIVE Flatten(_)
Flatten(ss) == IF ss = <<>> THEN <<>> ELSE ss[1] \o Flatten(Tail(ss))

(***************************************************************************)
(* The analyses handed to the generator: row and column counts, column     *)
(* names, detected type, the numeric statistics (in hundredths) and the    *)
(* categorical summaries, each in insertion order.                         *)
(***************************************************************************)
None == -1

Analyses ==
    { [row_count |-> 0, column_count |-> 0, columns |-> <<>>,
       detected_type |-> "unknown", statistics |-> <<>>, summary |-> <<>>],
      [row_count |-> 3, column_count |-> 2, columns |-> <<"nama", "ipk">>,
       detected_type |-> "student",
       statistics |-> << [col |-> "ipk", mean |-> 320, median |-> 350,
                          min |-> 210, max |-> 400, std |-> 98] >>,
       summary |-> << [col |-> "nama", unique_values |-> 2,
                       most_common |-> "Budi", most_common_count |-> 2] >>],
      [row_count |-> 12, column_count |-> 1, columns |-> <<"biaya">>,
       detected_type |-> "finance",
       statistics |-> <<>>,
       summary |-> << [col |-> "biaya", unique_values |-> 0,
                       most_common |-> "", most_common_count |-> 0] >>] }

ReportTypes == {"student_performance", "financial_analysis", "general"}

StatLines(st) ==
    << "", st.col \o ":",
       "  - Mean: " \o Fmt2(st.mean),
       "  - Median: " \o Fmt2(st.median),
       "  - Range: " \o Fmt2(st.min) \o " - " \o Fmt2(st.max),
       "  - Std Dev: " \o Fmt2(st.std) >>

\* most_common is shown only when it is truthy (neither None nor empty)
SummaryLines(info) ==
    << "", info.col \o ":",
       "  - Unique values: " \o IntStr(info.unique_values) >>
    \o (IF info.most_common # ""
        THEN << "  - Most common: " \o info.most_common \o " ("
                \o IntStr(info.most_common_count) \o " times)" >>
        ELSE <<>>)

\* DataProcessor.get_data_summary_for_ai
GetDataSummaryForAI(analysis) ==
    << "Data Overview:",
       "- Total records: " \o IntStr(analysis.row_count),
       "- Total columns: " \o IntStr(analysis.column_count),
       "- Detected type: " \o analysis.detected_type,
       "",
       "Columns:" >>
    \o [i \in 1..Len(analysis.columns) |-> "- " \o analysis.columns[i]]
    \o (IF analysis.statistics # <<>>
        THEN <<"", "Numerical Statistics:">>
             \o Flatten([i \in 1..Len(analysis.statistics) |->
                            StatLines(analysis.statistics[i])])
        ELSE <<>>)
    \o (IF analysis.summary # <<>>
        THEN <<"", "Categorical Data:">>
             \o Flatten([i \in 1..Len(analysis.summary) |->
                            SummaryLines(analysis.summary[i])])
        ELSE <<>>)

\* the outline of the report kind
Outline(rtype) ==
    IF rtype = "student_performance"
    THEN << "Tulis laporan performa mahasiswa dengan format berikut:",
            "1. RINGKASAN EKSEKUTIF", "2. ANALISIS PERFORMA",
            "3. KESIMPULAN & REKOMENDASI", "" >>
    ELSE IF rtype = "financial_analysis"
    THEN << "Tulis laporan keuangan institusi dengan format berikut:",
            "1. TINJAUAN KEUANGAN", "2. ANALISIS DETAIL",
            "3. KESIMPULAN & SARAN", "" >>
    ELSE << "Tulis laporan analitis umum dengan format berikut:",
            "1. Ringkasan Umum", "2. Analisis Data",
            "3. Kesimpulan & Rekomendasi", "" >>

\* ReportGenerator._create_prompt
CreatePrompt(analysis, rtype) ==
    << "Anda adalah analis institusi universitas yang sangat berpengalaman.",
       "Gunakan hanya informasi yang tersedia dalam data.", "" >>
    \o Outline(rtype)
    \o << "Gaya penulisan:",
          "- Gunakan Bahasa Indonesia yang formal dan jelas.", "" >>
    \o << "DATA YANG HARUS DIANALISIS:" >>
    \o GetDataSummaryForAI(analysis)
    \o << "", "Tulislah laporan naratif dalam Bahasa Indonesia sesuai struktur di atas:" >>

FallbackHeader == "# Laporan Universitas (Fallback)"
FallbackNote ==
    "*Catatan: AI gagal menghasilkan teks, sehingga laporan fallback digunakan.*"

\* ReportGenerator._create_fallback_report
CreateFallbackReport(analysis) ==
    << FallbackHeader, "",
       "Laporan ini dihasilkan berdasarkan data berikut:", "" >>
    \o GetDataSummaryForAI(analysis)
    \o << "", FallbackNote >>

NullUsage ==
    [prompt_tokens |-> None, output_tokens |-> None, total_tokens |-> None]

(***************************************************************************)
(* Responses of the generation API: the text may be absent, the usage      *)
(* metadata may be absent, and each of its counters is optional.           *)
(***************************************************************************)
Responses ==
    { [text_is_none |-> tn, text |-> <<"Narasi laporan universitas.">>,
       meta_is_none |-> m[1], prompt_token_count |-> m[2],
       candidates_token_count |-> m[3], total_token_count |-> m[4]] :
      tn \in BOOLEAN,
      m \in { <<TRUE, None, None, None>>,
              <<FALSE, 12, 30, 42>>,
              <<FALSE, 12, None, None>> } }

\* ReportGenerator._extract_usage_info
ExtractUsageInfo(response) ==
    IF response.meta_is_none
    THEN NullUsage
    ELSE [prompt_tokens |-> response.prompt_token_count,
          output_tokens |-> response.candidates_token_count,
          total_tokens  |-> response.total_token_count]

ShowCount(c) == IF c = None THEN "None" ELSE IntStr(c)

\* ReportGenerator._format_usage_section
FormatUsageSection(usage) ==
    <<"### Token Usage">>
    \o (IF usage.prompt_tokens = None
        THEN <<"_Token usage data tidak tersedia._">>
        ELSE << "- Prompt tokens: **" \o ShowCount(usage.prompt_tokens) \o "**",
                "- Output tokens: **" \o ShowCount(usage.output_tokens) \o "**",
                "- Total tokens: **" \o ShowCount(usage.total_tokens) \o "**" >>)

(***************************************************************************)
(* ReportGenerator.generate_report and _call_model_with_retry              *)
(***************************************************************************)
\* mutant: one attempt more
max_retries_Four == 3 + 1

max_retries == 3

NoReturn == [report |-> <<>>, usage_info |-> NullUsage]

InitGenVars ==
    /\ data_summary \in Analyses
    /\ report_type \in ReportTypes
    /\ prompt = <<>>
    /\ attempt = 0
    /\ apiLog = <<>>
    /\ sleeps = <<>>
    /\ genPc = "start"
    /\ genReturn = NoReturn

IdleGenVars ==
    /\ data_summary = CHOOSE a \in Analyses : a.row_count = 0
    /\ report_type = "general"
    /\ prompt = <<>>
    /\ attempt = 0
    /\ apiLog = <<>>
    /\ sleeps = <<>>
    /\ genPc = "idle"
    /\ genReturn = NoReturn

\* prompt = self._create_prompt(data_summary, report_type); the try block
\* is entered and the retry loop starts with attempt 0
GenerateReport ==
    /\ UNCHANGED <<ingVars, runVars, procVars>>
    /\ genPc = "start"
    /\ prompt' = CreatePrompt(data_summary, report_type)
    /\ attempt' = 0
    /\ genPc' = "calling"
    /\ UNCHANGED <<data_summary, report_type, apiLog, sleeps, genReturn>>

\* mutant: no except clause, the failure reaches the caller
OnGenerationError_Propagates ==
    /\ genReturn' = genReturn
    /\ genPc' = "raised"

\* the except clause of generate_report: the fallback report and null usage
\* are returned
OnGenerationError ==
    /\ genReturn' = [report |-> CreateFallbackReport(data_summary),
                     usage_info |-> NullUsage]
    /\ genPc' = "returned"

\* mutant: a constant wait
Backoff_Constant(a) == 1

\* the wait before the next attempt
Backoff(a) == 2 ^ a

\* whether a failed attempt sleeps and goes on (else it re-raises)
HasNextAttempt(a) == a < max_retries - 1

\* for attempt in range(max_retries)
InRange(a) == a < max_retries

\* mutant: a response without text is formatted like any other
CallModelSucceeds_TextAssumed ==
    /\ UNCHANGED <<ingVars, runVars, procVars>>
    /\ genPc = "calling"
    /\ \E response \in Responses :
         LET usage_info == ExtractUsageInfo(response)
         IN  /\ genReturn' =
                  [report |-> (IF response.text_is_none THEN <<"None">>
                               ELSE response.text)
                              \o <<"", "---">>
                              \o FormatUsageSection(usage_info),
                   usage_info |-> usage_info]
             /\ genPc' = "returned"
    /\ apiLog' = Append(apiLog, "ok")
    /\ UNCHANGED <<data_summary, report_type, prompt, attempt, sleeps>>

\* an attempt returns a response: _call_model_with_retry returns it and
\* generate_report builds the report; len(text) raises when the text is
\* absent, which the except clause catches
CallModelSucceeds ==
    /\ UNCHANGED <<ingVars, runVars, procVars>>
    /\ genPc = "calling"
    /\ \E response \in Responses :
         LET usage_info == ExtractUsageInfo(response)
         IN  IF response.text_is_none
             THEN OnGenerationError
             ELSE /\ genReturn' =
                       [report |-> response.text \o <<"", "---">>
                                   \o FormatUsageSection(usage_info),
                        usage_info |-> usage_info]
                  /\ genPc' = "returned"
    /\ apiLog' = Append(apiLog, "ok")
    /\ UNCHANGED <<data_summary, report_type, prompt, attempt, sleeps>>

\* an attempt raises: sleep and go on with the loop, or re-raise after the
\* last attempt.  A loop that ran out would return None, whose .text
\* raises in generate_report: the except clause again.
CallModelFails ==
    /\ UNCHANGED <<ingVars, runVars, procVars>>
    /\ genPc = "calling"
    /\ apiLog' = Append(apiLog, "fail")
    /\ IF HasNextAttempt(attempt)
       THEN /\ sleeps' = Append(sleeps, Backoff(attempt))
            /\ attempt' = attempt + 1
            /\ IF InRange(attempt + 1)
               THEN UNCHANGED <<genPc, genReturn>>
               ELSE OnGenerationError
       ELSE /\ OnGenerationError
            /\ UNCHANGED <<sleeps, attempt>>
    /\ UNCHANGED <<data_summary, report_type, prompt>>

(***************************************************************************)
(* The web application: the task store, api_generate, api_progress and the *)
(* background coroutine _background_generate.  The coroutine awaits once,  *)
(* after its first update; from there to its end it holds the event loop,  *)
(* so no other coroutine runs in between, while api_progress, a plain      *)
(* function served by a worker thread, can read the store at any point.    *)
(***************************************************************************)
TaskIds == 1..MaxTasks

NoFile == "None"

WebReportTypes == {"academic"}

\* the keyword parameters generate_report declares
GenerateReportParams == {"data_summary", "report_type"}

\* the keyword arguments _background_generate passes to generate_report
WebGenerateKwargs == {"data_summary", "report_type", "custom_prompt"}

\* the keyword arguments generate_student_report / generate_finance_report
\* pass to generate_report
CliGenerateKwargs == {"data_summary", "report_type"}

\* the methods class DataProcessor defines
DataProcessorMethods ==
    {"read_multiple_csvs", "read_csv", "clean_data", "analyze_data",
     "_detect_data_type", "get_data_summary_for_ai"}

\* a call binds when every keyword it passes is a declared parameter
CallBinds(kwargs, params) == kwargs \subseteq params

ErrorKinds ==
    {"NoData", "TypeError", "AttributeError", "Client", "Config", "Persist"}

\* str(e) of the exception of each kind
ErrorMessage(kind) ==
    CASE kind = "NoData" -> "No valid data ingested from provided sources."
      [] kind = "TypeError" ->
           "generate_report() got an unexpected keyword argument 'custom_prompt'"
      [] kind = "AttributeError" ->
           "'DataProcessor' object has no attribute 'read_excel'"
      [] kind = "Client" -> "Missing key inputs argument!"
      [] kind = "Config" -> "Gemini API key not found!"
      [] kind = "Persist" -> "cannot write the report"

\* f"Error: {str(e)}"
ErrorStatus(kind) == "Error: " \o ErrorMessage(kind)

IsErrorStatus(status) == \E k \in ErrorKinds : status = ErrorStatus(k)

IsTerminalStatus(status) == status = "Completed" \/ IsErrorStatus(status)

\* the pipeline stages in program order
Stages == <<"init", "ingest", "clean", "analyze", "generate", "validate", "save">>

StageIndex(st) == CHOOSE i \in 1..Len(Stages) : Stages[i] = st

\* what a run has produced so far
NoProducts == [narrative |-> "none", validated |-> FALSE, saved |-> FALSE]

NewCoroutine(rt) ==
    [pc |-> "scheduled", report_type |-> rt, stage |-> "init", err |-> "",
     products |-> NoProducts, log |-> <<>>]

\* mutant: the update is applied to every entry of the store
Update_EveryEntry(t, fields) ==
    [u \in DOMAIN TASKS |->
       [k \in DOMAIN TASKS[u] |->
          IF k \in DOMAIN fields THEN fields[k] ELSE TASKS[u][k]]]

\* TASKS[task_id].update(fields)
Update(t, fields) ==
    [TASKS EXCEPT ![t] = [k \in DOMAIN TASKS[t] |->
                            IF k \in DOMAIN fields THEN fields[k] ELSE TASKS[t][k]]]

InitCli ==
    [pc |-> "start", run |-> "none", stage |-> "init", err |-> "",
     products |-> NoProducts, log |-> <<>>]

InitRunVars ==
    /\ proc \in {"web", "cli"}
    /\ api_key_present \in BOOLEAN
    /\ AGGREGATION_MODE \in {"local", "api"}
    /\ TASKS = EmptyDir
    /\ bg = EmptyDir
    /\ loopOwner = 0
    /\ lastPoll = [task |-> 0, found |-> FALSE,
                   entry |-> [progress |-> 0, status |-> "", filename |-> NoFile]]
    /\ cli = InitCli

IdleRunVars ==
    /\ proc = "none"
    /\ api_key_present = TRUE
    /\ AGGREGATION_MODE = "local"
    /\ TASKS = EmptyDir
    /\ bg = EmptyDir
    /\ loopOwner = 0
    /\ lastPoll = [task |-> 0, found |-> FALSE,
                   entry |-> [progress |-> 0, status |-> "", filename |-> NoFile]]
    /\ cli = InitCli

\* mutant: the task id is not fresh, the first entry is made anew
ApiGenerate_ReusesId ==
    /\ UNCHANGED <<ingVars, genVars, procVars>>
    /\ proc = "web"
    /\ loopOwner = 0
    /\ \E rt \in WebReportTypes :
         /\ TASKS' = [t \in DOMAIN TASKS \cup {1} |->
                        IF t = 1
                        THEN [progress |-> 0, status |-> "Queued",
                              filename |-> NoFile]
                        ELSE TASKS[t]]
         /\ bg' = [t \in DOMAIN bg \cup {1} |->
                     IF t = 1 THEN NewCoroutine(rt) ELSE bg[t]]
    /\ UNCHANGED <<proc, api_key_present, AGGREGATION_MODE, loopOwner,
                   lastPoll, cli>>

\* POST /api/generate: a fresh task id, its entry, the coroutine scheduled
ApiGenerate ==
    /\ UNCHANGED <<ingVars, genVars, procVars>>
    /\ proc = "web"
    /\ loopOwner = 0
    /\ Cardinality(DOMAIN TASKS) < MaxTasks
    /\ \E rt \in WebReportTypes :
         LET task_id == Cardinality(DOMAIN TASKS) + 1
         IN  /\ TASKS' = [t \in DOMAIN TASKS \cup {task_id} |->
                            IF t = task_id
                            THEN [progress |-> 0, status |-> "Queued",
                                  filename |-> NoFile]
                            ELSE TASKS[t]]
             /\ bg' = [t \in DOMAIN bg \cup {task_id} |->
                         IF t = task_id THEN NewCoroutine(rt) ELSE bg[t]]
    /\ UNCHANGED <<proc, api_key_present, AGGREGATION_MODE, loopOwner,
                   lastPoll, cli>>

\* GET /api/progress/{task_id}: 404 for an unknown id, else the entry
ApiProgress ==
    /\ UNCHANGED <<ingVars, genVars, procVars>>
    /\ proc = "web"
    /\ \E task_id \in TaskIds :
         lastPoll' =
           IF task_id \notin DOMAIN TASKS
           THEN [task |-> task_id, found |-> FALSE,
                 entry |-> [progress |-> 0, status |-> "", filename |-> NoFile]]
           ELSE [task |-> task_id, found |-> TRUE, entry |-> TASKS[task_id]]
    /\ UNCHANGED <<proc, api_key_present, AGGREGATION_MODE, TASKS, bg,
                   loopOwner, cli>>

\* mutant: the error is printed but never recorded in the task's entry
BgFail_Unrecorded(t, kind, events) ==
    /\ TASKS' = TASKS
    /\ bg' = [bg EXCEPT ![t].pc = "done", ![t].err = kind,
                        ![t].log = bg[t].log \o events]
    /\ loopOwner' = 0

\* mutant: the error is recorded and the coroutine goes on with cleaning
BgFail_GoesOn(t, kind, events) ==
    /\ TASKS' = Update(t, [progress |-> -1, status |-> ErrorStatus(kind)])
    /\ bg' = [bg EXCEPT ![t].pc = "clean", ![t].err = kind,
                        ![t].log = bg[t].log \o events]
    /\ loopOwner' = t

\* the except clause of _background_generate: the error is recorded in the
\* task's entry and the coroutine ends
BgFail(t, kind, events) ==
    /\ TASKS' = Update(t, [progress |-> -1, status |-> ErrorStatus(kind)])
    /\ bg' = [bg EXCEPT ![t].pc = "done", ![t].err = kind,
                        ![t].log = bg[t].log \o events]
    /\ loopOwner' = 0

\* mutant: every stage announces itself with progress 0
BgAdvance_FromZero(t, next, progress, status, events) ==
    /\ TASKS' = Update(t, [progress |-> 0, status |-> status])
    /\ bg' = [bg EXCEPT ![t].pc = next, ![t].stage = next,
                        ![t].log = bg[t].log \o events]
    /\ loopOwner' = t

\* a stage of _background_generate ends and the next one is announced
BgAdvance(t, next, progress, status, events) ==
    /\ TASKS' = Update(t, [progress |-> progress, status |-> status])
    /\ bg' = [bg EXCEPT ![t].pc = next, ![t].stage = next,
                        ![t].log = bg[t].log \o events]
    /\ loopOwner' = t

\* the first update, then await asyncio.sleep(0)
BgStart(t) ==
    /\ UNCHANGED <<ingVars, genVars, procVars>>
    /\ proc = "web"
    /\ t \in DOMAIN bg
    /\ bg[t].pc = "scheduled"
    /\ loopOwner = 0
    /\ TASKS' = Update(t, [progress |-> 5,
                           status |-> "Initializing components..."])
    /\ bg' = [bg EXCEPT ![t].pc = "init"]
    /\ UNCHANGED <<proc, api_key_present, AGGREGATION_MODE, loopOwner,
                   lastPoll, cli>>

\* Config, DataAggregator, DataProcessor, the key (a missing key is caught
\* and replaced by None), ReportGenerator, OutputManager.  With no key the
\* GenAI client either finds one in its own environment or raises.
BgSetup(t) ==
    /\ UNCHANGED <<ingVars, genVars, procVars>>
    /\ proc = "web"
    /\ t \in DOMAIN bg
    /\ bg[t].pc = "init"
    /\ loopOwner = 0
    /\ \E client_ok \in BOOLEAN :
         /\ api_key_present => client_ok
         /\ IF client_ok
            THEN BgAdvance(t, "ingest", 10, "Ingesting data...", <<>>)
            ELSE BgFail(t, "Client", <<>>)
    /\ UNCHANGED <<proc, api_key_present, AGGREGATION_MODE, lastPoll, cli>>

\* the requests get_ingestion_sources and ingest make, by aggregation mode
IngestRequests == IF AGGREGATION_MODE = "api"
                  THEN <<"net:listing", "net:download">>
                  ELSE <<>>

\* cfg.get_ingestion_sources() and agg.ingest(sources, cache=True): ingest
\* returns the combined table or raises for want of data
BgIngest(t) ==
    /\ UNCHANGED <<ingVars, genVars, procVars>>
    /\ proc = "web"
    /\ t \in DOMAIN bg
    /\ bg[t].pc = "ingest"
    /\ loopOwner = t
    /\ \E ingested \in BOOLEAN :
         IF ingested
         THEN BgAdvance(t, "clean", 30, "Cleaning and processing data...",
                        IngestRequests)
         ELSE BgFail(t, "NoData", IngestRequests)
    /\ UNCHANGED <<proc, api_key_present, AGGREGATION_MODE, lastPoll, cli>>

\* processor.clean_data(combined_df)
BgClean(t) ==
    /\ UNCHANGED <<ingVars, genVars, procVars>>
    /\ proc = "web"
    /\ t \in DOMAIN bg
    /\ bg[t].pc = "clean"
    /\ loopOwner = t
    /\ BgAdvance(t, "analyze", 60, "Analyzing data...", <<>>)
    /\ UNCHANGED <<proc, api_key_present, AGGREGATION_MODE, lastPoll, cli>>

\* processor.analyze_data(cleaned)
BgAnalyze(t) ==
    /\ UNCHANGED <<ingVars, genVars, procVars>>
    /\ proc = "web"
    /\ t \in DOMAIN bg
    /\ bg[t].pc = "analyze"
    /\ loopOwner = t
    /\ BgAdvance(t, "generate", 70, "Generating AI report...", <<>>)
    /\ UNCHANGED <<proc, api_key_present, AGGREGATION_MODE, lastPoll, cli>>

\* the outcome of out.save_report and the update that follows it
SaveReport(t, saved) ==
    IF saved
    THEN /\ TASKS' = Update(t, [progress |-> 100, status |-> "Completed",
                                filename |-> "academic_report.html"])
         /\ bg' = [bg EXCEPT ![t].pc = "done", ![t].stage = "save",
                             ![t].products.validated = TRUE,
                             ![t].products.saved = TRUE]
         /\ loopOwner' = 0
    ELSE /\ TASKS' = Update(t, [progress |-> -1,
                                status |-> ErrorStatus("Persist")])
         /\ bg' = [bg EXCEPT ![t].pc = "done", ![t].stage = "save",
                             ![t].err = "Persist",
                             ![t].products.validated = TRUE]
         /\ loopOwner' = 0

\* rg.generate_report(data_summary=..., report_type=..., custom_prompt=...):
\* the call raises TypeError unless it binds.  A bound call returns a
\* narrative (the model's or the fallback) and the saving stage is
\* announced; the next step validates the report, saves it and records the
\* result.
BgGenerateAndSave(t) ==
    /\ UNCHANGED <<ingVars, genVars, procVars>>
    /\ proc = "web"
    /\ t \in DOMAIN bg
    /\ bg[t].pc \in {"generate", "save"}
    /\ loopOwner = t
    /\ IF bg[t].pc = "save"
       THEN \E saved \in BOOLEAN : SaveReport(t, saved)
       ELSE IF CallBinds(WebGenerateKwargs, GenerateReportParams)
       THEN \E narrative \in {"model", "fallback"} :
              /\ TASKS' = Update(t, [progress |-> 90,
                                     status |-> "Saving report..."])
              /\ bg' = [bg EXCEPT ![t].pc = "save", ![t].stage = "validate",
                                  ![t].products.narrative = narrative,
                                  ![t].log = bg[t].log \o <<"net:generate">>]
              /\ loopOwner' = t
       ELSE BgFail(t, "TypeError", <<>>)
    /\ UNCHANGED <<proc, api_key_present, AGGREGATION_MODE, lastPoll, cli>>

BgRun(t) ==
    \/ BgStart(t)
    \/ BgSetup(t)
    \/ BgIngest(t)
    \/ BgClean(t)
    \/ BgAnalyze(t)
    \/ BgGenerateAndSave(t)

(***************************************************************************)
(* The CLI program: main(), the menu and generate_student_report /         *)
(* generate_finance_report.  Any exception ends the program in main's      *)
(* except clause.                                                          *)
(***************************************************************************)
CliWebVarsUnchanged ==
    UNCHANGED <<proc, api_key_present, AGGREGATION_MODE, TASKS, bg, loopOwner,
                lastPoll>>

\* UniversityReportApp(): get_api_key raises when the key is missing
CliMain ==
    /\ UNCHANGED <<ingVars, genVars, procVars>>
    /\ proc = "cli"
    /\ cli.pc = "start"
    /\ cli' = IF api_key_present
              THEN [cli EXCEPT !.pc = "menu"]
              ELSE [cli EXCEPT !.pc = "exit", !.err = "Config"]
    /\ CliWebVarsUnchanged

\* the report a menu choice starts; the demo runs the first sample file
\* that exists
ChosenRun(choice, students_exists, finance_exists) ==
    CASE choice = "1" -> "student"
      [] choice = "2" -> "finance"
      [] choice = "3" -> IF students_exists THEN "student"
                         ELSE IF finance_exists THEN "finance" ELSE "none"
      [] OTHER -> "none"

CliChoose ==
    /\ UNCHANGED <<ingVars, genVars, procVars>>
    /\ proc = "cli"
    /\ cli.pc = "menu"
    /\ \E choice \in {"1", "2", "3", "4", "other"},
          students_exists \in BOOLEAN, finance_exists \in BOOLEAN :
         LET run == ChosenRun(choice, students_exists, finance_exists)
         IN  cli' = IF run = "none"
                    THEN [cli EXCEPT !.pc = "exit"]
                    ELSE [cli EXCEPT !.pc = "run", !.run = run]
    /\ CliWebVarsUnchanged

\* generate_student_report / generate_finance_report: read_excel, clean,
\* analyze, generate, validate, save.  The first call raises AttributeError
\* unless DataProcessor defines read_excel.
CliGenerateReport ==
    /\ UNCHANGED <<ingVars, genVars, procVars>>
    /\ proc = "cli"
    /\ cli.pc = "run"
    /\ IF "read_excel" \in DataProcessorMethods
       THEN \E read \in BOOLEAN, narrative \in {"model", "fallback"},
               saved \in BOOLEAN :
              cli' = IF ~read
                     THEN [cli EXCEPT !.pc = "exit", !.stage = "ingest",
                                      !.err = "NoData"]
                     ELSE IF ~CallBinds(CliGenerateKwargs, GenerateReportParams)
                     THEN [cli EXCEPT !.pc = "exit", !.stage = "generate",
                                      !.err = "TypeError"]
                     ELSE [cli EXCEPT
                             !.pc = "exit", !.stage = "save",
                             !.err = IF saved THEN "" ELSE "Persist",
                             !.products = [narrative |-> narrative,
                                           validated |-> TRUE,
                                           saved |-> saved],
                             !.log = <<"net:generate">>]
       ELSE cli' = [cli EXCEPT !.pc = "exit", !.stage = "ingest",
                               !.err = "AttributeError"]
    /\ CliWebVarsUnchanged

(***************************************************************************)
(* Strings, the way the str methods of Python treat them.                  *)
(***************************************************************************)
CharAt(s, i) == SubSeq(s, i, i)

\* k in s
Contains(s, k) ==
    \E i \in 1..(Len(s) - Len(k) + 1) : SubSeq(s, i, i + Len(k) - 1) = k

UpperLetters == "ABCDEFGHIJKLMNOPQRSTUVWXYZ"
LowerLetters == "abcdefghijklmnopqrstuvwxyz"

LowerChar(c) ==
    IF \E i \in 1..Len(UpperLetters) : CharAt(UpperLetters, i) = c
    THEN CharAt(LowerLetters,
                CHOOSE i \in 1..Len(UpperLetters) : CharAt(UpperLetters, i) = c)
    ELSE c

\* s.lower(), one half of the text after the other
RECURSIVE Lower(_)
Lower(s) ==
    IF Len(s) = 0 THEN ""
    ELSE IF Len(s) = 1 THEN LowerChar(s)
    ELSE Lower(SubSeq(s, 1, Len(s) \div 2))
            \o Lower(SubSeq(s, (Len(s) \div 2) + 1, Len(s)))

\* s.replace(',', '.')
RECURSIVE ReplaceComma(_)
ReplaceComma(s) ==
    IF s = "" THEN ""
    ELSE (IF Head(s) = "," THEN "." ELSE Head(s)) \o ReplaceComma(Tail(s))

\* " ".join(names)
RECURSIVE JoinSpace(_)
JoinSpace(names) ==
    IF names = <<>> THEN ""
    ELSE IF Len(names) = 1 THEN names[1]
         ELSE names[1] \o " " \o JoinSpace(Tail(names))

IsDigits(s) ==
    \A i \in 1..Len(s) : \E k \in 1..10 : Digit[k] = CharAt(s, i)

RECURSIVE DigitsValue(_)
DigitsValue(s) ==
    IF s = "" THEN 0
    ELSE 10 * DigitsValue(SubSeq(s, 1, Len(s) - 1))
         + ((CHOOSE k \in 1..10 : Digit[k] = CharAt(s, Len(s))) - 1)

(***************************************************************************)
(* Typed tables.  clean_data and analyze_data look inside the cells.  A    *)
(* typed table has its column names in order, the dtype of each column     *)
(* ("object" or "number"), the index label of each row and the rows.  A    *)
(* cell is a text, a number (an exact fraction n/d in lowest terms) or     *)
(* NaN.                                                                    *)
(***************************************************************************)
RECURSIVE Gcd(_, _)
Gcd(a, b) == IF b = 0 THEN a ELSE Gcd(b, a % b)

Str(s) == [t |-> "str", s |-> s, n |-> 0, d |-> 1]

Num(n, d) ==
    LET g == Gcd(n, d) IN [t |-> "num", s |-> "", n |-> n \div g, d |-> d \div g]

NaN == [t |-> "nan", s |-> "", n |-> 0, d |-> 1]

\* a text pd.to_numeric cannot parse
Unparsable == [t |-> "err", s |-> "", n |-> 0, d |-> 1]

IsNa(c) == c.t = "nan"

NumLess(a, b) == a.n * b.d < b.n * a.d

NumAdd(a, b) == Num(a.n * b.d + b.n * a.d, a.d * b.d)

NumSub(a, b) == Num(a.n * b.d - b.n * a.d, a.d * b.d)

NumMul(a, b) == Num(a.n * b.n, a.d * b.d)

Column(tbl, col) == [i \in 1..Len(tbl.rows) |-> tbl.rows[i][col]]

Present(cells) == SelectSeq(cells, LAMBDA c : ~IsNa(c))

RECURSIVE NumSum(_)
NumSum(cells) ==
    IF cells = <<>> THEN Num(0, 1) ELSE NumAdd(cells[1], NumSum(Tail(cells)))

\* Series.mean(): the mean of the present values, NaN when there is none
Mean(cells) ==
    LET p == Present(cells)
    IN  IF p = <<>> THEN NaN
        ELSE LET sum == NumSum(p) IN Num(sum.n, sum.d * Len(p))

\* the unsigned decimal literals float() accepts: 12, 3.5, 3., .5
ParseUnsigned(s) ==
    IF s # "" /\ IsDigits(s) THEN Num(DigitsValue(s), 1)
    ELSE IF \E i \in 1..Len(s) :
                /\ CharAt(s, i) = "."
                /\ Len(s) > 1
                /\ IsDigits(SubSeq(s, 1, i - 1))
                /\ IsDigits(SubSeq(s, i + 1, Len(s)))
         THEN LET i == CHOOSE i \in 1..Len(s) : CharAt(s, i) = "."
                  frac == SubSeq(s, i + 1, Len(s))
              IN  Num(DigitsValue(SubSeq(s, 1, i - 1) \o frac), 10 ^ Len(frac))
         ELSE Unparsable

\* pd.to_numeric of one text: a number, NaN for "nan", or a ValueError
ToNumeric(s) ==
    IF Lower(s) = "nan" THEN NaN
    ELSE IF s # "" /\ Head(s) = "-"
         THEN LET v == ParseUnsigned(Tail(s))
              IN  IF v = Unparsable THEN v ELSE Num(0 - v.n, v.d)
         ELSE ParseUnsigned(s)

\* Series.astype(str) of one cell of an object column
AsStr(c) == IF IsNa(c) THEN "nan" ELSE c.s

\* the rows at the given positions, with their index labels
TakeRows(tbl, keep) ==
    [tbl EXCEPT !.index = [k \in 1..Len(keep) |-> tbl.index[keep[k]]],
                !.rows = [k \in 1..Len(keep) |-> tbl.rows[keep[k]]]]

\* mutant: no row is dropped
DropDuplicates_None(tbl) == tbl

\* df.drop_duplicates(): a row equal to an earlier one is dropped, the
\* others keep their index labels
DropDuplicates(tbl) ==
    LET first(i) == \A j \in 1..(i - 1) : tbl.rows[j] # tbl.rows[i]
    IN  TakeRows(tbl, SelectSeq([i \in 1..Len(tbl.rows) |-> i], first))

\* df.isna().all() of one column
AllNa(tbl, col) == \A i \in 1..Len(tbl.rows) : IsNa(tbl.rows[i][col])

\* df.columns[df.isna().all()].tolist()
EmptyCols(tbl) == SelectSeq(tbl.cols, LAMBDA c : AllNa(tbl, c))

\* the table restricted to the given columns
TakeCols(tbl, cols) ==
    [tbl EXCEPT !.cols = cols,
                !.dtype = [c \in Range(cols) |-> tbl.dtype[c]],
                !.rows = [i \in 1..Len(tbl.rows) |->
                            [c \in Range(cols) |-> tbl.rows[i][c]]]]

\* df.dropna(axis=1, how='all')
DropNaCols(tbl) == TakeCols(tbl, SelectSeq(tbl.cols, LAMBDA c : ~AllNa(tbl, c)))

\* df[col] = cells, with the dtype of the new column
SetCells(tbl, col, dtype, cells) ==
    [tbl EXCEPT !.dtype = [tbl.dtype EXCEPT ![col] = dtype],
                !.rows = [i \in 1..Len(tbl.rows) |->
                            [tbl.rows[i] EXCEPT ![col] = cells[i]]]]

\* new_col = df[col].astype(str).str.replace(',', '.', regex=True)
NewCol(tbl, col) ==
    [i \in 1..Len(tbl.rows) |-> ReplaceComma(AsStr(tbl.rows[i][col]))]

\* one pass of the coercion loop: pd.to_numeric(new_col) either parses every
\* text or raises, and then the column is set to new_col
CoerceColumn(tbl, col) ==
    IF tbl.dtype[col] # "object" THEN tbl
    ELSE LET new_col == NewCol(tbl, col)
             parsed == [i \in 1..Len(new_col) |-> ToNumeric(new_col[i])]
         IN  IF \A i \in 1..Len(parsed) : parsed[i] # Unparsable
             THEN SetCells(tbl, col, "number", parsed)
             ELSE SetCells(tbl, col, "object",
                           [i \in 1..Len(new_col) |-> Str(new_col[i])])

\* for col in df.columns: the coercion loop
RECURSIVE CoerceColumns(_, _)
CoerceColumns(tbl, cols) ==
    IF cols = <<>> THEN tbl
    ELSE CoerceColumns(CoerceColumn(tbl, cols[1]), Tail(cols))

\* df.select_dtypes(include=[np.number]) / include=['object']
SelectDtypes(tbl, dtype) == SelectSeq(tbl.cols, LAMBDA c : tbl.dtype[c] = dtype)

\* Series.fillna(val)
FillNa(cells, val) ==
    [i \in 1..Len(cells) |-> IF IsNa(cells[i]) THEN val ELSE cells[i]]

\* mutant: missing numbers are filled with zero
FillMean_Zero(tbl, col) ==
    SetCells(tbl, col, "number", FillNa(Column(tbl, col), Num(0, 1)))

\* mean_val = df[col].mean(); df.loc[:, col] = df[col].fillna(mean_val)
FillMean(tbl, col) ==
    SetCells(tbl, col, "number",
             FillNa(Column(tbl, col), Mean(Column(tbl, col))))

\* for col in num_cols
RECURSIVE FillMeans(_, _)
FillMeans(tbl, cols) ==
    IF cols = <<>> THEN tbl ELSE FillMeans(FillMean(tbl, cols[1]), Tail(cols))

\* the order of Python's str comparison on the characters the tables use
CharOrder == " ,-.0123456789" \o UpperLetters \o "_" \o LowerLetters

Ord(c) == CHOOSE i \in 1..Len(CharOrder) : CharAt(CharOrder, i) = c

RECURSIVE StrLess(_, _)
StrLess(a, b) ==
    IF b = "" THEN FALSE
    ELSE IF a = "" THEN TRUE
    ELSE IF Head(a) = Head(b) THEN StrLess(Tail(a), Tail(b))
    ELSE Ord(Head(a)) < Ord(Head(b))

Count(cells, c) == Len(SelectSeq(cells, LAMBDA x : x = c))

\* the present values that occur most often
MostFrequent(cells) ==
    LET p == Present(cells)
    IN  {c \in Range(p) : \A o \in Range(p) : Count(p, o) <= Count(p, c)}

\* mode_series = df[col].mode(): the most frequent values, sorted;
\* mode_val = mode_series[0] if not mode_series.empty else ""
ModeVal(cells) ==
    LET m == MostFrequent(cells)
    IN  IF m = {} THEN Str("")
        ELSE CHOOSE c \in m : \A o \in m \ {c} : StrLess(c.s, o.s)

\* if df[col].isna().any(): df.loc[:, col] = df[col].fillna(mode_val)
FillMode(tbl, col) ==
    IF \E i \in 1..Len(tbl.rows) : IsNa(tbl.rows[i][col])
    THEN SetCells(tbl, col, "object",
                  FillNa(Column(tbl, col), ModeVal(Column(tbl, col))))
    ELSE tbl

\* for col in cat_cols
RECURSIVE FillModes(_, _)
FillModes(tbl, cols) ==
    IF cols = <<>> THEN tbl ELSE FillModes(FillMode(tbl, cols[1]), Tail(cols))

\* DataProcessor.clean_data, up to its return value
CleanedTable(tbl) ==
    LET nodup == DropDuplicates(tbl)
        kept == DropNaCols(nodup)
        coerced == CoerceColumns(kept, kept.cols)
        filled == FillMeans(coerced, SelectDtypes(coerced, "number"))
    IN  FillModes(filled, SelectDtypes(filled, "object"))

(***************************************************************************)
(* The tables handed to clean_data: what pd.read_csv and pd.concat give    *)
(* for a few columns, each with its dtype and the cells it may hold.       *)
(***************************************************************************)
DataColumns ==
    { [name |-> "NIM", dtype |-> "number", vals |-> {Num(1, 1), Num(2, 1)}],
      [name |-> "Nama Mahasiswa", dtype |-> "object",
       vals |-> {NaN, Str("Budi"), Str("Sari, S.T")}],
      [name |-> "IPK", dtype |-> "object",
       vals |-> {NaN, Str("3,5"), Str("4,0")}],
      [name |-> "Nilai", dtype |-> "number",
       vals |-> {NaN, Num(80, 1), Num(90, 1)}],
      [name |-> "Biaya", dtype |-> "object",
       vals |-> {Str("1,5"), Str("2"), Str("lunas")}],
      [name |-> "Catatan", dtype |-> "number", vals |-> {NaN}],
      [name |-> "Kode_Prodi", dtype |-> "number", vals |-> {Num(7, 1)}],
      [name |-> "ID_Mahasiswa", dtype |-> "number", vals |-> {Num(1, 1)}],
      [name |-> "Risk", dtype |-> "number", vals |-> {Num(5, 1)}],
      [name |-> "Bulan", dtype |-> "object", vals |-> {Str("Januari")}],
      [name |-> "Kode", dtype |-> "number", vals |-> {Num(3, 1)}],
      [name |-> "source_type", dtype |-> "object", vals |-> {Str("local")}] }

ColumnNames == {c.name : c \in DataColumns}

ColumnOf(name) == CHOOSE c \in DataColumns : c.name = name

\* the column lists whose tables have up to MaxTableRows rows
LongSchemas ==
    { <<"Nama Mahasiswa", "IPK">>, <<"NIM", "Nilai">>, <<"Biaya", "Catatan">> }

\* every list of one or two distinct columns, for tables of one row
ShortSchemas ==
    {<<a>> : a \in ColumnNames}
        \cup {s \in ColumnNames \X ColumnNames : s[1] # s[2]}

RowsOver(schema) ==
    {r \in [Range(schema) -> UNION {c.vals : c \in DataColumns}] :
        \A c \in Range(schema) : r[c] \in ColumnOf(c).vals}

\* pd.concat(..., ignore_index=True): the index is 0 .. n-1
TypedTable(schema, rows) ==
    [cols |-> schema,
     dtype |-> [c \in Range(schema) |-> ColumnOf(c).dtype],
     index |-> [i \in 1..Len(rows) |-> i - 1],
     rows |-> rows]

NoTable == TypedTable(<<>>, <<>>)

InputTables ==
    UNION { {TypedTable(s, rows) : rows \in SeqsUpTo(RowsOver(s), MaxTableRows)}
              : s \in LongSchemas }
    \cup UNION { {TypedTable(s, <<r>>) : r \in RowsOver(s)} : s \in ShortSchemas }

(***************************************************************************)
(* DataProcessor._detect_data_type and analyze_data                        *)
(***************************************************************************)
student_keywords ==
    <<"student", "mahasiswa", "nama", "grade", "nilai", "ipk", "gpa">>

finance_keywords ==
    <<"finance", "keuangan", "biaya", "pembayaran", "tagihan", "revenue",
      "expense">>

akreditasi_keywords ==
    <<"akreditasi", "program", "dosen", "kurikulum", "sk", "unggul", "prodi">>

exclude_keywords == <<"nim", "id", "kode">>

\* any(k in s for k in keywords)
AnyIn(keywords, s) == \E i \in 1..Len(keywords) : Contains(s, keywords[i])

\* sum([is_student, is_finance, is_akreditasi])
SumFlags(flags) == SumSeq([i \in 1..Len(flags) |-> IF flags[i] THEN 1 ELSE 0])

\* mutant: the first matching family wins
DetectDataType_FirstMatch(cols) ==
    LET joined == JoinSpace([i \in 1..Len(cols) |-> Lower(cols[i])])
    IN  IF AnyIn(student_keywords, joined) THEN "student"
        ELSE IF AnyIn(finance_keywords, joined) THEN "finance"
        ELSE IF AnyIn(akreditasi_keywords, joined) THEN "akreditasi"
        ELSE "unknown"

\* _detect_data_type(df), which reads df.columns only
DetectDataType(cols) ==
    LET columns_lower == [i \in 1..Len(cols) |-> Lower(cols[i])]
        joined == JoinSpace(columns_lower)
        is_student == AnyIn(student_keywords, joined)
        is_finance == AnyIn(finance_keywords, joined)
        is_akreditasi == AnyIn(akreditasi_keywords, joined)
    IN  IF SumFlags(<<is_student, is_finance, is_akreditasi>>) > 1 THEN "mixed"
        ELSE IF is_student THEN "student"
        ELSE IF is_finance THEN "finance"
        ELSE IF is_akreditasi THEN "akreditasi"
        ELSE "unknown"

\* mutant: identifier columns are left out whatever the detected type
NumericCols_AlwaysExclude(tbl, detected_type) ==
    SelectSeq(SelectDtypes(tbl, "number"),
              LAMBDA col : ~AnyIn(exclude_keywords, Lower(col)))

\* numeric_cols of analyze_data
NumericCols(tbl, detected_type) ==
    IF detected_type = "student"
    THEN SelectSeq(SelectDtypes(tbl, "number"),
                   LAMBDA col : ~AnyIn(exclude_keywords, Lower(col)))
    ELSE SelectDtypes(tbl, "number")

\* the cells in ascending order
RECURSIVE SortNums(_)
SortNums(cells) ==
    IF cells = <<>> THEN <<>>
    ELSE LET i == CHOOSE i \in 1..Len(cells) :
                     \A j \in 1..Len(cells) : ~NumLess(cells[j], cells[i])
         IN  <<cells[i]>> \o SortNums(SubSeq(cells, 1, i - 1)
                                        \o SubSeq(cells, i + 1, Len(cells)))

\* Series.median()
Median(cells) ==
    LET p == SortNums(Present(cells))
        n == Len(p)
    IN  IF n = 0 THEN NaN
        ELSE IF n % 2 = 1 THEN p[(n + 1) \div 2]
        ELSE LET sum == NumAdd(p[n \div 2], p[(n \div 2) + 1])
             IN  Num(sum.n, sum.d * 2)

\* Series.min() / Series.max()
Min(cells) == LET p == SortNums(Present(cells)) IN IF p = <<>> THEN NaN ELSE p[1]

Max(cells) ==
    LET p == SortNums(Present(cells)) IN IF p = <<>> THEN NaN ELSE p[Len(p)]

\* the square of Series.std(): the sample variance, NaN below two values
Variance(cells) ==
    LET p == Present(cells)
        m == Mean(p)
        sq == [i \in 1..Len(p) |-> NumMul(NumSub(p[i], m), NumSub(p[i], m))]
    IN  IF Len(p) < 2 THEN NaN
        ELSE LET sum == NumSum(sq) IN Num(sum.n, sum.d * (Len(p) - 1))

\* int(df[col].isna().sum())
Missing(cells) == Len(cells) - Len(Present(cells))

NumericStats(tbl, col) ==
    LET cells == Column(tbl, col)
    IN  [col |-> col, mean |-> Mean(cells), median |-> Median(cells),
         min |-> Min(cells), max |-> Max(cells), std2 |-> Variance(cells),
         missing |-> Missing(cells)]

\* value_counts().index[0]: the most frequent present value, the one that
\* appears first among equals
MostCommon(cells) ==
    LET p == Present(cells)
        m == MostFrequent(cells)
    IN  p[CHOOSE i \in 1..Len(p) :
                 p[i] \in m /\ \A j \in 1..(i - 1) : p[j] \notin m]

\* most_common is the empty text where the code has None
CategoricalSummary(tbl, col) ==
    LET cells == Column(tbl, col)
        p == Present(cells)
    IN  [col |-> col, unique_values |-> Cardinality(Range(p)),
         most_common |-> IF p = <<>> THEN "" ELSE MostCommon(cells).s,
         most_common_count |->
             IF p = <<>> THEN 0 ELSE Count(p, MostCommon(cells)),
         missing |-> Missing(cells)]

\* mutant: the analysis also carries the row count as total_students
AnalyzeTable_WithTotal(tbl) ==
    [row_count |-> Len(tbl.rows),
     column_count |-> Len(tbl.cols),
     columns |-> tbl.cols,
     statistics |-> <<>>,
     summary |-> <<>>,
     detected_type |-> DetectDataType(tbl.cols),
     total_students |-> Len(tbl.rows)]

\* DataProcessor.analyze_data
AnalyzeTable(tbl) ==
    LET detected_type == DetectDataType(tbl.cols)
        numeric_cols == NumericCols(tbl, detected_type)
        categorical_cols == SelectDtypes(tbl, "object")
    IN  [row_count |-> Len(tbl.rows),
         column_count |-> Len(tbl.cols),
         columns |-> tbl.cols,
         statistics |-> [i \in 1..Len(numeric_cols) |->
                            NumericStats(tbl, numeric_cols[i])],
         summary |-> [i \in 1..Len(categorical_cols) |->
                         CategoricalSummary(tbl, categorical_cols[i])],
         detected_type |-> detected_type]

NoAnalysis == AnalyzeTable(NoTable)

InitDataVars ==
    /\ raw_df \in InputTables
    /\ cleaned = NoTable
    /\ duplicates_removed = 0
    /\ empty_cols = <<>>
    /\ analysis_dict = NoAnalysis
    /\ dpPc = "start"

IdleDataVars ==
    /\ raw_df = NoTable
    /\ cleaned = NoTable
    /\ duplicates_removed = 0
    /\ empty_cols = <<>>
    /\ analysis_dict = NoAnalysis
    /\ dpPc = "idle"

\* cleaned = dp.clean_data(raw_df)
CleanData ==
    /\ UNCHANGED <<ingVars, genVars, runVars, valVars>>
    /\ dpPc = "start"
    /\ cleaned' = CleanedTable(raw_df)
    /\ duplicates_removed' = Len(raw_df.rows) - Len(DropDuplicates(raw_df).rows)
    /\ empty_cols' = EmptyCols(DropDuplicates(raw_df))
    /\ dpPc' = "cleaned"
    /\ UNCHANGED <<raw_df, analysis_dict>>

\* analysis = dp.analyze_data(cleaned)
AnalyzeData ==
    /\ UNCHANGED <<ingVars, genVars, runVars, valVars>>
    /\ dpPc = "cleaned"
    /\ analysis_dict' = AnalyzeTable(cleaned)
    /\ dpPc' = "analyzed"
    /\ UNCHANGED <<raw_df, cleaned, duplicates_removed, empty_cols>>

(***************************************************************************)
(* ReportGenerator.validate_report.  The regular expressions are matched   *)
(* the way re matches them, on the characters of the text.                 *)
(***************************************************************************)
\* \d, \s and [A-Za-z]
InClass(class, c) ==
    CASE class = "digit" -> \E k \in 1..10 : Digit[k] = c
      [] class = "space" -> c \in {" ", "\t", "\n"}
      [] class = "letter" ->
            \E k \in 1..Len(UpperLetters) :
                c = CharAt(UpperLetters, k) \/ c = CharAt(LowerLetters, k)

Least(S) == CHOOSE x \in S : \A y \in S : x <= y

\* where the longest run of the class that starts at i ends (one past it)
SpanEnd(s, i, class) ==
    Least({j \in i..(Len(s) + 1) :
              j = Len(s) + 1 \/ ~InClass(class, CharAt(s, j))})

\* s[i:].startswith(k)
StartsAt(s, i, k) ==
    i + Len(k) - 1 <= Len(s) /\ SubSeq(s, i, i + Len(k) - 1) = k

\* len(re.findall(r"\d+(?:\.\d+)?", s)), scanning from i: the next token
\* starts at the next digit
RECURSIVE CountNumbers(_, _)
CountNumbers(s, i) ==
    LET starts == {p \in i..Len(s) : InClass("digit", CharAt(s, p))}
    IN  IF starts = {} THEN 0
        ELSE LET j == SpanEnd(s, Least(starts), "digit")
                 k == IF StartsAt(s, j, ".")
                            /\ SpanEnd(s, j + 1, "digit") > j + 1
                      THEN SpanEnd(s, j + 1, "digit")
                      ELSE j
             IN  1 + CountNumbers(s, k)

\* where a match of r"Departemen\s+([A-Za-z]+)" that starts at i has its
\* group: <<first, one past last>>, or <<>> without a match
DepartemenAt(s, i) ==
    LET a == i + Len("Departemen")
        b == SpanEnd(s, a, "space")
        c == SpanEnd(s, b, "letter")
    IN  IF StartsAt(s, i, "Departemen") /\ b > a /\ c > b
        THEN <<b, c>>
        ELSE <<>>

\* re.findall(r"Departemen\s+([A-Za-z]+)", s), scanning from i: the next
\* match is the leftmost one, and the scan goes on after it
RECURSIVE FindDepartemen(_, _)
FindDepartemen(s, i) ==
    LET starts == {p \in i..Len(s) : DepartemenAt(s, p) # <<>>}
    IN  IF starts = {} THEN <<>>
        ELSE LET g == DepartemenAt(s, Least(starts))
             IN  <<SubSeq(s, g[1], g[2] - 1)>> \o FindDepartemen(s, g[2])

\* where a match of r"mahasiswa\s*[=:]?\s*(\d+)" that starts at i has its
\* group, or <<>> without a match
MahasiswaAt(s, i) ==
    LET a == SpanEnd(s, i + Len("mahasiswa"), "space")
        b == IF StartsAt(s, a, "=") \/ StartsAt(s, a, ":") THEN a + 1 ELSE a
        c == SpanEnd(s, b, "space")
        d == SpanEnd(s, c, "digit")
    IN  IF StartsAt(s, i, "mahasiswa") /\ d > c THEN <<c, d>> ELSE <<>>

\* re.search(r"mahasiswa\s*[=:]?\s*(\d+)", s): int(match.group(1)) of the
\* leftmost match, or None without a match
SearchMahasiswa(s, i) ==
    LET starts == {p \in i..Len(s) : MahasiswaAt(s, p) # <<>>}
    IN  IF starts = {} THEN None
        ELSE LET g == MahasiswaAt(s, Least(starts))
             IN  DigitsValue(SubSeq(s, g[1], g[2] - 1))

ShortLimit == 200

TooShortIssue == "Teks laporan terlalu pendek (<200 karakter)"

HedgingIssue == "Laporan menyiratkan ketidakpastian atau kekurangan data"

DepartmentIssue(match) ==
    "Departemen '" \o match \o "' disebut dalam teks, tapi tidak ada di data"

MismatchIssue(val, total) ==
    "Isi narasi menyebut total mahasiswa = " \o IntStr(val)
        \o ", tetapi data menyebut " \o IntStr(total)

\* mutant: a text of exactly the limit is flagged too
TooShort_Inclusive(text) ==
    IF Len(text) <= ShortLimit THEN <<TooShortIssue>> ELSE <<>>

\* 1. Too short
TooShort(text) == IF Len(text) < ShortLimit THEN <<TooShortIssue>> ELSE <<>>

\* 2. Placeholder phrases
Hedging(text) ==
    LET lower == Lower(text)
    IN  IF Contains(lower, "tidak dapat") \/ Contains(lower, "data terbatas")
        THEN <<HedgingIssue>>
        ELSE <<>>

\* data_summary.get("departments", {})
Departments(summary) ==
    IF summary.has_departments THEN summary.departments ELSE <<>>

\* mutant: every mention is flagged
UnknownDepartments_All(text, summary) ==
    [k \in 1..Len(FindDepartemen(text, 1)) |->
        DepartmentIssue(FindDepartemen(text, 1)[k])]

\* 3. the loop over depts, and inside it the loop over the mentions
UnknownDepartments(text, summary) ==
    LET depts == Departments(summary)
        mentions == FindDepartemen(text, 1)
        unknown == SelectSeq(mentions, LAMBDA m : m \notin Range(depts))
    IN  Flatten([k \in 1..Len(depts) |->
                    [j \in 1..Len(unknown) |-> DepartmentIssue(unknown[j])]])

Abs(x) == IF x < 0 THEN 0 - x ELSE x

\* mutant: the tolerance is 5% with no floor of 1
Deviates_NoFloor(val, total) == 20 * Abs(val - total) > total

\* abs(val - total) > max(1, 0.05 * total), both sides multiplied by 20
Deviates(val, total) ==
    20 * Abs(val - total) > (IF total > 20 THEN total ELSE 20)

\* 4. Claim extraction
NumericMismatch(text, summary) ==
    LET total == summary.total_students
        val == SearchMahasiswa(text, 1)
    IN  IF total # None /\ val # None /\ Deviates(val, total)
        THEN <<MismatchIssue(val, total)>>
        ELSE <<>>

\* mutant: a text without numbers is not valid
IsValid_NeedsNumbers(issues, numbers) == Len(issues) = 0 /\ numbers > 0

\* "is_valid": (len(issues) == 0)
IsValid(issues, numbers) == Len(issues) = 0

ValidateReport(text, summary) ==
    LET numbers == CountNumbers(text, 1)
        issues == TooShort(text) \o Hedging(text)
                    \o UnknownDepartments(text, summary)
                    \o NumericMismatch(text, summary)
    IN  [is_valid |-> IsValid(issues, numbers),
         issues |-> issues,
         num_extracted |-> numbers]

(***************************************************************************)
(* The narratives and data summaries handed to validate_report.  A         *)
(* narrative is a few phrases followed by filler up to a chosen length.    *)
(***************************************************************************)
\* s * n
RECURSIVE Repeat(_, _)
Repeat(s, n) ==
    IF n <= 0 THEN ""
    ELSE IF n = 1 THEN s
    ELSE Repeat(s, n \div 2) \o Repeat(s, n - (n \div 2))

Mentions ==
    {"", "Departemen Fisika unggul. ", "Departemen Kimia berkembang. ",
     "Departemen Fisika dan Departemen Kimia. ", "Departemen Biologi maju. ",
     "departemen Biologi. "}

Claims ==
    {"", "mahasiswa: 200 ", "Jumlah mahasiswa = 120 ", "mahasiswa 126 ",
     "mahasiswa:127 ", "Total mahasiswa : 12 orang. ",
     "Mahasiswa: 200 "}

Hedges == {"", "Data Terbatas. ", "Rata-rata IPK 3.5 tidak dapat dihitung. "}

Lengths == {0, ShortLimit - 1, ShortLimit}

Narrative(mention, claim, hedge, length) ==
    LET core == mention \o claim \o hedge
    IN  core \o Repeat(".", length - Len(core))

Narratives ==
    {Narrative(m, c, h, l) : m \in Mentions, c \in Claims, h \in Hedges,
                             l \in Lengths}

DepartmentLists == {<<>>, <<"Fisika">>, <<"Fisika", "Kimia">>}

Totals == {None, 120, 11}

\* a dict produced by analyze_data has neither key
DataSummaries ==
    [has_departments : BOOLEAN, departments : DepartmentLists,
     total_students : Totals]

NoValidation == [is_valid |-> FALSE, issues |-> <<>>, num_extracted |-> 0]

InitValVars ==
    /\ report_text \in Narratives
    /\ val_data_summary \in
          {s \in DataSummaries : ~s.has_departments => s.departments = <<>>}
    /\ validation = NoValidation
    /\ valPc = "start"

IdleValVars ==
    /\ report_text = ""
    /\ val_data_summary = [has_departments |-> FALSE, departments |-> <<>>,
                           total_students |-> None]
    /\ validation = NoValidation
    /\ valPc = "idle"

\* validation = rg.validate_report(report_text, data_summary)
ValidateReportCall ==
    /\ UNCHANGED <<ingVars, genVars, runVars, dpVars>>
    /\ valPc = "start"
    /\ validation' = ValidateReport(report_text, val_data_summary)
    /\ valPc' = "returned"
    /\ UNCHANGED <<report_text, val_data_summary>>

(***************************************************************************)
(* validate_report as the pipeline calls it: on the dict analyze_data      *)
(* returned.                                                               *)
(***************************************************************************)
\* what validate_report reads of a dict: data_summary.get("departments", {})
\* and data_summary.get("total_students")
SummaryView(d) ==
    [has_departments |-> "departments" \in DOMAIN d,
     departments |-> IF "departments" \in DOMAIN d THEN d.departments ELSE <<>>,
     total_students |-> IF "total_students" \in DOMAIN d
                        THEN d.total_students ELSE None]

\* narratives a run may hand over, each with a department mention and a
\* stated total: a short hedged one and one of 200 characters
PipelineNarratives ==
    {Narrative("Departemen Biologi maju. ", "mahasiswa: 200 ",
               "Data Terbatas. ", 0),
     Narrative("Departemen Biologi maju. ", "mahasiswa: 200 ", "", ShortLimit)}

\* rg.validate_report(report_text, analysis)
ValidateAnalysis ==
    /\ UNCHANGED <<ingVars, genVars, runVars, dpVars>>
    /\ dpPc = "analyzed"
    /\ valPc = "idle"
    /\ \E text \in PipelineNarratives :
         /\ report_text' = text
         /\ val_data_summary' = SummaryView(analysis_dict)
         /\ validation' = ValidateReport(text, SummaryView(analysis_dict))
    /\ valPc' = "returned"

(***************************************************************************)
(* Specifications.                                                         *)
(***************************************************************************)
IdleProcVars == IdleDataVars /\ IdleValVars

Init == InitRunVars /\ IdleIngestVars /\ IdleGenVars /\ IdleProcVars

Next ==
    \/ ApiGenerate
    \/ ApiProgress
    \/ \E t \in TaskIds : BgRun(t)
    \/ CliMain
    \/ CliChoose
    \/ CliGenerateReport

Spec == Init /\ [][Next]_vars

\* the event loop runs every scheduled coroutine, and each blocking call of
\* a stage returns or raises
FairSpec == Spec /\ \A t \in TaskIds : WF_vars(BgRun(t))

NextIngest ==
    \/ IngestLocal
    \/ IngestRemoteFile
    \/ IngestListing
    \/ IngestLink
    \/ IngestCombine

InitIngest == InitIngestVars /\ IdleGenVars /\ IdleRunVars /\ IdleProcVars

SpecIngest == InitIngest /\ [][NextIngest]_vars

NextGen ==
    \/ GenerateReport
    \/ CallModelSucceeds
    \/ CallModelFails

InitGen == InitGenVars /\ IdleIngestVars /\ IdleRunVars /\ IdleProcVars

SpecGen == InitGen /\ [][NextGen]_vars

NextData ==
    \/ CleanData
    \/ AnalyzeData

InitData ==
    InitDataVars /\ IdleIngestVars /\ IdleGenVars /\ IdleRunVars /\ IdleValVars

SpecData == InitData /\ [][NextData]_vars

NextPipeline ==
    \/ CleanData
    \/ AnalyzeData
    \/ ValidateAnalysis

SpecPipeline == InitData /\ [][NextPipeline]_vars

NextValidate == ValidateReportCall

InitValidate ==
    InitValVars /\ IdleIngestVars /\ IdleGenVars /\ IdleRunVars /\ IdleDataVars

SpecValidate == InitValidate /\ [][NextValidate]_vars

(***************************************************************************)
(* Properties.                                                             *)
(***************************************************************************)
\* the pipeline runs of this process that have ended
EndedRuns ==
    {bg[t] : t \in {u \in DOMAIN bg : bg[u].pc = "done"}}
    \cup (IF cli.pc = "exit" /\ cli.run # "none" THEN {cli} ELSE {})

RunCompleted(r) ==
    /\ r.err = ""
    /\ r.products.narrative \in {"model", "fallback"}
    /\ r.products.validated

\* an abort before the generation stage; the failure it ends with is left
\* open, which can only favour the claim (it names the no-data failure)
RunAbortedBeforeGeneration(r) ==
    /\ r.err # ""
    /\ StageIndex(r.stage) < StageIndex("generate")

\* C1: every run, web or CLI, ends in one of two ways: completed with a
\* narrative (the model's or the fallback) and a validation verdict, or
\* aborted before the generation stage; no run fails at or after the
\* generation stage.
C1_NoRunFailsAtOrAfterGeneration ==
    \A r \in EndedRuns : RunCompleted(r) \/ RunAbortedBeforeGeneration(r)

\* C2: every started web run eventually has a terminal status, Completed or
\* Error, and the entry of a task is written by nothing but the steps of its
\* own coroutine: no request aborts or cancels a run.
C2_StartedRunReachesTerminal ==
    /\ \A t \in TaskIds :
         (t \in DOMAIN TASKS)
           ~> (t \in DOMAIN TASKS /\ IsTerminalStatus(TASKS[t].status))
    /\ [][\A t \in DOMAIN TASKS :
            /\ t \in DOMAIN TASKS'
            /\ TASKS'[t] # TASKS[t] => bg'[t] # bg[t]]_vars

C2_Witness ==
    \E t \in DOMAIN TASKS :
        /\ IsErrorStatus(TASKS[t].status)
        /\ TASKS[t].progress = -1
        /\ bg[t].pc = "done"

GenEnded == genPc \in {"returned", "raised"}

AllAttemptsFailed ==
    /\ apiLog # <<>>
    /\ \A i \in 1..Len(apiLog) : apiLog[i] = "fail"

IsFallback(text) ==
    /\ text # <<>>
    /\ text[1] = FallbackHeader
    /\ text[Len(text)] = FallbackNote

\* C3: when every attempt to call the generation API fails, generate_report
\* does not raise: it returns the fallback narrative, which carries the
\* fallback marker, and usage counters that are all null.
C3_FallbackOnExhaustedRetries ==
    (GenEnded /\ AllAttemptsFailed) =>
        /\ genPc = "returned"
        /\ IsFallback(genReturn.report)
        /\ genReturn.usage_info.prompt_tokens = None
        /\ genReturn.usage_info.output_tokens = None
        /\ genReturn.usage_info.total_tokens = None

C3_Witness ==
    /\ genPc = "returned"
    /\ AllAttemptsFailed
    /\ Len(apiLog) = 3
    /\ genReturn.report[1] = FallbackHeader

\* C4: one generate_report calls the generation API at most 3 times; an
\* attempt is made only after the previous one failed, so none follows a
\* success, and none follows the third attempt.
C4_AtMostThreeCalls ==
    /\ Len(apiLog) <= 3
    /\ \A i \in 1..(Len(apiLog) - 1) : apiLog[i] = "fail"
    /\ GenEnded => (apiLog # <<>> /\
                    (apiLog[Len(apiLog)] = "ok" \/ Len(apiLog) = 3))

C4_Witness ==
    /\ genPc = "returned"
    /\ apiLog = <<"fail", "fail", "ok">>

\* C5 as stated: when all 3 attempts fail the sleeps are 1, 2 and 4.
C5_SleepsOneTwoFour ==
    (GenEnded /\ AllAttemptsFailed) => sleeps = <<1, 2, 4>>

\* C5 as amended: when all 3 attempts fail the client has slept twice, 1
\* then 2 time units, once between each two consecutive attempts; it does
\* not sleep after the third attempt.
C5_SleepsOneTwo ==
    /\ (GenEnded /\ AllAttemptsFailed) => sleeps = <<1, 2>>
    /\ Len(sleeps) = Len(SelectSeq(apiLog, LAMBDA o : o = "fail"))
                     - (IF GenEnded /\ AllAttemptsFailed THEN 1 ELSE 0)

C5_Witness ==
    /\ GenEnded
    /\ AllAttemptsFailed
    /\ sleeps = <<1, 2>>

IngestEnded == ingPc \in {"returned", "raised"}

\* a read or fetch that gave a parsed table, whatever its row count
Parsed(e) == e.kind \in {"local", "link", "remote"} /\ e.out >= 0

\* a read or fetch whose table ingest keeps: a zero-row table of a local
\* path or of a listing link is skipped, one of a single remote file is kept
Retained(e) ==
    \/ e.kind \in {"local", "link"} /\ e.out >= 1
    \/ e.kind = "remote" /\ e.out >= 0

\* C6 as stated: ingest raises if and only if no table was successfully
\* parsed across all locators.
C6_RaisesIffNothingParsed ==
    IngestEnded =>
        ((ingPc = "raised") <=> ~(\E k \in 1..Len(ingLog) : Parsed(ingLog[k])))

\* C6 as amended: ingest raises if and only if no table was retained, a
\* zero-row table of a local path or listing link being skipped and not
\* retained; with at least one retained table it returns the combined table
\* however many other locators failed or were skipped.
C6_RaisesIffNothingRetained ==
    IngestEnded =>
        /\ (ingPc = "raised")
             <=> ~(\E k \in 1..Len(ingLog) : Retained(ingLog[k]))
        /\ (ingPc = "raised") <=> (frames = <<>>)
        /\ (ingPc = "returned") => combined_df = Concat(frames)

C6_Witness ==
    /\ ingPc = "returned"
    /\ \E k \in 1..Len(ingLog) : ingLog[k].out = Failed
    /\ \E k \in 1..Len(ingLog) : ingLog[k].kind = "local" /\ ingLog[k].out = 0
    /\ Len(frames) = 1

\* C7: a failure while reading or fetching one locator, or one link of a
\* listing, never keeps the locators and links after it from being
\* processed, and a listing without links is skipped without raising: when
\* ingest ends, every locator and every link of every listing was tried.
C7_FailuresDoNotStopTheLoop ==
    IngestEnded =>
        /\ \A i \in 1..Len(sources) :
             \E k \in 1..Len(ingLog) : ingLog[k].src = i /\ ingLog[k].link = 0
        /\ \A k \in 1..Len(ingLog) :
             (ingLog[k].kind = "listing" /\ ingLog[k].out >= 1) =>
                \A j \in 1..ingLog[k].out :
                   \E m \in 1..Len(ingLog) :
                      /\ ingLog[m].kind = "link"
                      /\ ingLog[m].src = ingLog[k].src
                      /\ ingLog[m].link = j

C7_Witness ==
    /\ ingPc = "returned"
    /\ \E k \in 1..Len(ingLog), m \in 1..Len(ingLog) :
         /\ k < m
         /\ ingLog[k].kind = "link"
         /\ ingLog[k].out = Failed
         /\ ingLog[m].out >= 1
    /\ \E k \in 1..Len(ingLog) :
         ingLog[k].kind = "listing" /\ ingLog[k].out <= 0

AllLocalReadable ==
    /\ \A i \in 1..Len(sources) : ~IsUrl(sources[i])
    /\ \A k \in 1..Len(ingLog) : ingLog[k].out >= 0

\* C8: for readable local sources the combined table has as many rows as
\* the sources with at least one row have together; a zero-row source is
\* skipped and contributes neither a frame nor a row.
C8_RowCountIsSumOfNonEmptySources ==
    (ingPc = "returned" /\ AllLocalReadable) =>
        /\ Len(combined_df.rows) =
             SumSeq([k \in 1..Len(ingLog) |->
                       IF ingLog[k].out >= 1 THEN ingLog[k].out ELSE 0])
        /\ Len(frames) =
             Cardinality({k \in 1..Len(ingLog) : ingLog[k].out >= 1})

C8_Witness ==
    /\ ingPc = "returned"
    /\ AllLocalReadable
    /\ \E k \in 1..Len(ingLog) : ingLog[k].out = 0
    /\ \E k \in 1..Len(ingLog) : ingLog[k].out = 2
    /\ Len(combined_df.rows) = 2

HasProvenance(row) ==
    /\ "source_type" \in DOMAIN row
    /\ "source_file" \in DOMAIN row
    /\ row["source_type"] # NA
    /\ row["source_file"] # NA

\* C9: every row of the combined table carries a non-missing source_type
\* and a non-missing source_file, whichever kind of locator produced it.
C9_EveryRowHasProvenance ==
    (ingPc = "returned") =>
        /\ {"source_type", "source_file"} \subseteq Range(combined_df.cols)
        /\ \A i \in 1..Len(combined_df.rows) : HasProvenance(combined_df.rows[i])

C9_Witness ==
    /\ ingPc = "returned"
    /\ \E i \in 1..Len(combined_df.rows) :
         combined_df.rows[i]["source_type"] = "local"
    /\ \E i \in 1..Len(combined_df.rows) :
         combined_df.rows[i]["source_type"] = "api"
    /\ \E k \in 1..Len(ingLog) : ingLog[k].kind = "remote" /\ ingLog[k].out >= 1

\* C10: with cache=true, once ingest returns, every non-empty table that
\* was ingested, from any kind of locator, has a cached copy under the name
\* of its source file, the last write of a name being the copy kept; with
\* cache=false no cache file is written.
C10_EveryIngestedTableIsCached ==
    (ingPc = "returned") =>
        IF cache
        THEN \A k \in 1..Len(frames) :
               frames[k].rows # <<>> =>
                  LET name == frames[k].rows[1]["source_file"]
                      last == CHOOSE m \in 1..Len(frames) :
                                /\ frames[m].rows # <<>>
                                /\ frames[m].rows[1]["source_file"] = name
                                /\ \A n \in (m + 1)..Len(frames) :
                                     frames[n].rows = <<>>
                                     \/ frames[n].rows[1]["source_file"] # name
                  IN  /\ name \in DOMAIN cacheFiles
                      /\ cacheFiles[name] = frames[last]
        ELSE cacheFiles = EmptyDir

(***************************************************************************)
(* Properties of clean_data and analyze_data.                              *)
(***************************************************************************)
CleanReturned == dpPc \in {"cleaned", "analyzed"}

\* the input row a cleaned row comes from, by its index label
InputRow(k) == raw_df.rows[cleaned.index[k] + 1]

\* the number a text stands for once its decimal commas are periods
AsNumber(c) == IF c.t = "str" THEN ToNumeric(ReplaceComma(c.s)) ELSE c

\* every present value of the input column parses as a number
AllParse(col) ==
    \A i \in 1..Len(raw_df.rows) : AsNumber(raw_df.rows[i][col]) # Unparsable

RetainedTextColumns ==
    {col \in Range(cleaned.cols) : raw_df.dtype[col] = "object"}

\* C11: a text column becomes numeric if every one of its values parses as a
\* number after the decimal comma is made a period; otherwise the column
\* stays text and every present cell is identical to its input value, no
\* comma replaced.
C11_CoercionIsAllOrNothing ==
    CleanReturned =>
        \A col \in RetainedTextColumns :
            IF AllParse(col)
            THEN /\ cleaned.dtype[col] = "number"
                 /\ \A k \in 1..Len(cleaned.rows) :
                        ~IsNa(InputRow(k)[col]) =>
                            cleaned.rows[k][col] = AsNumber(InputRow(k)[col])
            ELSE /\ cleaned.dtype[col] = "object"
                 /\ \A k \in 1..Len(cleaned.rows) :
                        ~IsNa(InputRow(k)[col]) =>
                            cleaned.rows[k][col] = InputRow(k)[col]

\* C12: after clean_data every cell that was missing in a retained text
\* column holds a most frequent present value of that column, or the empty
\* string when the column has no present value.
C12_MissingTextIsImputedWithMode ==
    CleanReturned =>
        \A col \in Range(cleaned.cols) :
            cleaned.dtype[col] = "object" =>
                \A k \in 1..Len(cleaned.rows) :
                    IsNa(InputRow(k)[col]) =>
                        LET m == MostFrequent(Column(raw_df, col))
                        IN  IF m = {} THEN cleaned.rows[k][col] = Str("")
                            ELSE cleaned.rows[k][col] \in m

\* the rows of the input that equal an earlier row
DuplicateRows ==
    {i \in 1..Len(raw_df.rows) :
        \E j \in 1..(i - 1) : raw_df.rows[j] = raw_df.rows[i]}

\* the columns of the input that are missing in every row
MissingEverywhere ==
    {col \in Range(raw_df.cols) :
        \A i \in 1..Len(raw_df.rows) : IsNa(raw_df.rows[i][col])}

\* the numbers of a column of the input, in the rows that were kept
PresentNumbers(col) ==
    Present([k \in 1..Len(cleaned.rows) |-> AsNumber(InputRow(k)[col])])

\* C13: the table clean_data returns has no missing value in a retained
\* column: the columns missing in every row are dropped (and no other), and
\* each missing cell of a retained numeric column holds the mean of the
\* column's present values.
C13_NoMissingValueRemains ==
    CleanReturned =>
        /\ \A k \in 1..Len(cleaned.rows) :
              \A col \in Range(cleaned.cols) : ~IsNa(cleaned.rows[k][col])
        /\ Range(empty_cols) = MissingEverywhere
        /\ cleaned.cols =
              SelectSeq(raw_df.cols, LAMBDA c : c \notin MissingEverywhere)
        /\ \A col \in Range(cleaned.cols) :
              cleaned.dtype[col] = "number" =>
                  \A k \in 1..Len(cleaned.rows) :
                      IsNa(AsNumber(InputRow(k)[col])) =>
                          NumMul(cleaned.rows[k][col],
                                 Num(Len(PresentNumbers(col)), 1))
                              = NumSum(PresentNumbers(col))

\* a column was dropped, and a missing number was filled with the mean of
\* two different present values
C13_Witness ==
    /\ CleanReturned
    /\ empty_cols # <<>>
    /\ \E col \in Range(cleaned.cols) :
          /\ cleaned.dtype[col] = "number"
          /\ \E k \in 1..Len(cleaned.rows) : IsNa(AsNumber(InputRow(k)[col]))
          /\ Cardinality(Range(PresentNumbers(col))) > 1

\* C14: clean_data never increases the row count; the duplicates it reports
\* removed are the rows equal to an earlier row, and their number plus the
\* row count of the cleaned table is the row count of the input; the rows
\* that remain are in input order.
C14_RowsOnlyLoseDuplicates ==
    CleanReturned =>
        /\ Len(cleaned.rows) <= Len(raw_df.rows)
        /\ duplicates_removed = Cardinality(DuplicateRows)
        /\ duplicates_removed + Len(cleaned.rows) = Len(raw_df.rows)
        /\ \A k \in 1..(Len(cleaned.rows) - 1) :
              cleaned.index[k] < cleaned.index[k + 1]
        /\ \A k \in 1..Len(cleaned.rows) :
              (cleaned.index[k] + 1) \in 1..Len(raw_df.rows) \ DuplicateRows

\* a duplicate was removed from between two rows that remain
C14_Witness ==
    /\ CleanReturned
    /\ duplicates_removed > 0
    /\ Len(cleaned.rows) > 1
    /\ cleaned.index[Len(cleaned.rows)] = Len(raw_df.rows) - 1

\* a keyword family matches when a lower-cased column name contains one of
\* its keywords
FamilyMatches(keywords, cols) ==
    \E i \in 1..Len(cols) : \E k \in 1..Len(keywords) :
        Contains(Lower(cols[i]), keywords[k])

MatchingFamilies(cols) ==
    {f \in {"student", "finance", "akreditasi"} :
        FamilyMatches(CASE f = "student" -> student_keywords
                        [] f = "finance" -> finance_keywords
                        [] f = "akreditasi" -> akreditasi_keywords, cols)}

\* C15: detect_type returns mixed when the lower-cased column names match at
\* least two of the three keyword families, the matching family when exactly
\* one matches, and unknown when none matches.
C15_DetectedTypeFollowsFamilies ==
    dpPc = "analyzed" =>
        LET m == MatchingFamilies(cleaned.cols)
        IN  CASE Cardinality(m) >= 2 -> analysis_dict.detected_type = "mixed"
              [] Cardinality(m) = 1 -> analysis_dict.detected_type \in m
              [] OTHER -> analysis_dict.detected_type = "unknown"

\* two families match through different columns
C15_Witness ==
    /\ dpPc = "analyzed"
    /\ Cardinality(MatchingFamilies(cleaned.cols)) = 2
    /\ Cardinality(MatchingFamilies(<<cleaned.cols[1]>>)) = 1
    /\ analysis_dict.detected_type = "mixed"

HasStatistics(col) ==
    \E i \in 1..Len(analysis_dict.statistics) :
        analysis_dict.statistics[i].col = col

IsIdentifierName(col) ==
    \E k \in 1..Len(exclude_keywords) : Contains(Lower(col), exclude_keywords[k])

\* C16: analyze_data leaves a numeric column out of the statistics if and
\* only if the detected type is student and the column's name contains an
\* identifier keyword; under mixed, finance, akreditasi and unknown every
\* numeric column has statistics.
C16_IdentifiersExcludedOnlyForStudent ==
    dpPc = "analyzed" =>
        \A col \in Range(cleaned.cols) :
            cleaned.dtype[col] = "number" =>
                (~HasStatistics(col) <=>
                    (analysis_dict.detected_type = "student"
                        /\ IsIdentifierName(col)))

\* a student table whose identifier column is left out and whose other
\* numeric column is not
C16_Witness ==
    /\ dpPc = "analyzed"
    /\ analysis_dict.detected_type = "student"
    /\ \E a \in Range(cleaned.cols), b \in Range(cleaned.cols) :
          /\ cleaned.dtype[a] = "number" /\ cleaned.dtype[b] = "number"
          /\ IsIdentifierName(a) /\ ~HasStatistics(a)
          /\ HasStatistics(b)

(***************************************************************************)
(* Properties of validate_report.                                          *)
(***************************************************************************)
ValidateReturned == valPc = "returned"

Issues == Range(validation.issues)

\* the number the narrative states next to the keyword 'mahasiswa': the
\* first such statement of the text
StatedTotal == SearchMahasiswa(report_text, 1)

IsMismatchIssue(issue) == StartsAt(issue, 1, "Isi narasi menyebut total")

\* C17: when the analysis exposes a known total and the narrative states a
\* number next to 'mahasiswa', a numeric-mismatch issue naming both values is
\* raised exactly when the stated value differs from the total by more than
\* max(1, 5% of the total).
C17_MismatchBeyondTolerance ==
    (ValidateReturned /\ val_data_summary.total_students # None
                      /\ StatedTotal # None) =>
        LET total == val_data_summary.total_students
            diff == Abs(StatedTotal - total)
        IN  IF diff > 1 /\ 20 * diff > total
            THEN MismatchIssue(StatedTotal, total) \in Issues
            ELSE \A issue \in Issues : ~IsMismatchIssue(issue)

\* total 120 and 'mahasiswa: 200': the issue is raised
C17_Witness ==
    /\ ValidateReturned
    /\ val_data_summary.total_students = 120
    /\ StatedTotal = 200
    /\ MismatchIssue(200, 120) \in Issues

\* the names the narrative mentions after the word Departemen
MentionedDepartments == Range(FindDepartemen(report_text, 1))

ValidDepartments == Range(val_data_summary.departments)

C19_TooShortBelowLimit ==
    ValidateReturned => (TooShortIssue \in Issues <=> Len(report_text) < 200)

\* a narrative of 199 characters with a department mention and a stated
\* total, against an analysis with departments and a total
C19_Witness ==
    /\ ValidateReturned
    /\ Len(report_text) = 199
    /\ TooShortIssue \in Issues
    /\ MentionedDepartments # {} /\ StatedTotal # None
    /\ val_data_summary.has_departments
    /\ val_data_summary.total_students # None

\* C20: is_valid is true if and only if the issues sequence is empty; the
\* count of numeric tokens is reported and is not among the conditions.
C20_ValidIffNoIssues ==
    ValidateReturned =>
        /\ validation.is_valid <=> validation.issues = <<>>
        /\ validation.num_extracted = CountNumbers(report_text, 1)

\* a valid narrative without any numeric token
C20_Witness ==
    /\ ValidateReturned
    /\ validation.is_valid
    /\ validation.num_extracted = 0
    /\ Len(report_text) >= 200

(***************************************************************************)
(* Properties of the usage counters, the task store and the run order.     *)
(***************************************************************************)
\* C21: the usage generate_report returns has its three counters all null
\* or all non-null; a partially filled usage is never returned.
C21_UsageIsAllOrNothing ==
    genPc = "returned" =>
        LET u == genReturn.usage_info
        IN  \/ /\ u.prompt_tokens = None
               /\ u.output_tokens = None
               /\ u.total_tokens = None
            \/ /\ u.prompt_tokens # None
               /\ u.output_tokens # None
               /\ u.total_tokens # None

\* the entries of the task store a step changes
ChangedEntries == {t \in DOMAIN TASKS : TASKS'[t] # TASKS[t]}

\* the step is one of run t's coroutine, which holds the event loop or takes it
StepOfRun(t) ==
    /\ loopOwner \in {0, t}
    /\ bg'[t] # bg[t]
    /\ \A u \in DOMAIN bg \ {t} : bg'[u] = bg[u]

\* the progress each stage announces, in the order of Stages
StageProgress == <<5, 10, 30, 60, 70, 90, 100>>

\* the entry is one run t has written by now, or the one api_generate made
WrittenByRun(t, e) ==
    \/ e = [progress |-> 0, status |-> "Queued", filename |-> NoFile]
    \/ /\ bg[t].pc # "scheduled"
       /\ e.filename = NoFile
       /\ \E i \in 1..StageIndex(bg[t].stage) :
            i < Len(Stages) /\ e.progress = StageProgress[i]
    \/ /\ bg[t].pc = "done"
       /\ e = TASKS[t]

\* C22: under any interleaving of web runs and polls, a step writes at most
\* one entry of the task store, the writer is the entry's own run while it
\* holds the event loop, and a poll returns the polled entry whole, in a
\* state its run wrote.
C22_EntriesHaveOneWriter ==
    /\ [][/\ Cardinality(ChangedEntries) <= 1
          /\ \A t \in ChangedEntries : StepOfRun(t)
          /\ \A t \in DOMAIN TASKS' \ DOMAIN TASKS : TASKS' = TASKS @@ (t :> TASKS'[t])
          /\ lastPoll' # lastPoll /\ lastPoll'.found =>
                lastPoll'.entry = TASKS[lastPoll'.task]]_vars
    /\ [](lastPoll.found =>
            /\ lastPoll.task \in DOMAIN TASKS
            /\ WrittenByRun(lastPoll.task, lastPoll.entry))

\* two runs are under way, one past its await and holding the loop, the
\* other waiting at its await, and a poll has seen the first one mid-run
C22_Witness ==
    /\ DOMAIN TASKS = {1, 2}
    /\ loopOwner = 1
    /\ TASKS[1].progress = 30
    /\ TASKS[2].progress = 5
    /\ lastPoll.found /\ lastPoll.task = 1 /\ lastPoll.entry.progress = 30

\* the requests a run has made: listing, download, generation
NetworkActivity(r) == SelectSeq(r.log, LAMBDA e : SubSeq(e, 1, 4) = "net:")

\* C23: when the API credential is absent no run makes a request (no
\* listing request, no download, no generation call), and a run that has
\* ended has failed.
C23_NoNetworkWithoutCredential ==
    ~api_key_present =>
        /\ \A t \in DOMAIN bg :
             /\ NetworkActivity(bg[t]) = <<>>
             /\ bg[t].pc = "done" => bg[t].err # ""
        /\ NetworkActivity(cli) = <<>>
        /\ cli.pc = "exit" => cli.err = "Config"

\* the log entries of the reads and downloads that wrote a cache file
CacheWrites ==
    {k \in 1..Len(ingLog) :
        cache /\ ingLog[k].kind \in {"local", "link"} /\ ingLog[k].out >= 1}

\* where a cached table came from: a local path, or a link of a listing
Origin(e) == <<sources[e.src], e.link>>

\* C24: within one ingest the tables of two different sources are written
\* to two different cache file names: there are as many cache files as
\* sources that were cached, none overwritten by another source.
C24_CacheWritesNeverCollide ==
    Cardinality(DOMAIN cacheFiles)
        = Cardinality({Origin(ingLog[k]) : k \in CacheWrites})

C26_EachIssueOnce ==
    ValidateReturned =>
        \A i, j \in 1..Len(validation.issues) :
            i # j => validation.issues[i] # validation.issues[j]

IsModelReport(text) ==
    /\ Len(text) > 3
    /\ text[1] = "Narasi laporan universitas."
    /\ text[2] = "" /\ text[3] = "---"
    /\ text[4] = "### Token Usage"

C28_TerminalStatusIsAbsorbing ==
    /\ [][\A t \in DOMAIN TASKS :
            /\ t \in DOMAIN TASKS'
            /\ IsTerminalStatus(TASKS[t].status) => TASKS'[t] = TASKS[t]]_vars
    /\ [](\A t \in DOMAIN TASKS :
            /\ TASKS[t].status = "Completed" <=> TASKS[t].progress = 100
            /\ IsErrorStatus(TASKS[t].status) <=> TASKS[t].progress = -1
            /\ IsTerminalStatus(TASKS[t].status) <=> bg[t].pc = "done")

\* one run has ended with an Error status; since then another was
\* requested, has started and holds the event loop, and a poll has read
\* the ended run's entry
C28_Witness ==
    /\ DOMAIN TASKS = {1, 2}
    /\ IsErrorStatus(TASKS[1].status) /\ TASKS[1].progress = -1
    /\ TASKS[2].progress = 30 /\ loopOwner = 2
    /\ lastPoll.found /\ lastPoll.task = 1 /\ lastPoll.entry = TASKS[1]

ProgressValues == <<0, 5, 10, 30, 60, 70, 90, 100>>

\* C29: each task's progress is one of 0, 5, 10, 30, 60, 70, 90, 100, -1;
\* a change of progress goes to the next value of that list or to -1, and
\* never away from -1; the filename is non-null only when the status is
\* Completed.
C29_ProgressMovesForward ==
    /\ [](\A t \in DOMAIN TASKS :
            /\ TASKS[t].progress \in Range(ProgressValues) \cup {-1}
            /\ TASKS[t].filename # NoFile => TASKS[t].status = "Completed")
    /\ [][\A t \in DOMAIN TASKS :
            TASKS'[t].progress # TASKS[t].progress =>
               /\ TASKS[t].progress # -1
               /\ \/ TASKS'[t].progress = -1
                  \/ \E i \in 1..(Len(ProgressValues) - 1) :
                       /\ TASKS[t].progress = ProgressValues[i]
                       /\ TASKS'[t].progress = ProgressValues[i + 1]]_vars

\* one run has gone through 0, 5, 10, 30, 60 to 70 and another has moved
\* from 10 to -1
C29_Witness ==
    /\ \E t \in DOMAIN TASKS :
         TASKS[t].progress = 70 /\ bg[t].stage = "generate"
    /\ \E t \in DOMAIN TASKS :
         TASKS[t].progress = -1 /\ bg[t].stage = "ingest"

(***************************************************************************)
(* Properties of the pipeline.                                             *)
(***************************************************************************)
\* C30: validate_report called on an analysis that analyze_data produced,
\* which carries neither a total nor a department set, raises no issue but
\* the too-short one and the missing-data admission, whatever departments
\* and totals the narrative states.
C30_OnlyLengthAndHedgingIssues ==
    (ValidateReturned /\ dpPc = "analyzed") =>
        /\ val_data_summary = SummaryView(analysis_dict)
        /\ ~val_data_summary.has_departments
        /\ val_data_summary.total_students = None
        /\ Issues \subseteq {TooShortIssue, HedgingIssue}

\* a narrative of 200 characters that names a department and states 200
\* students was validated against the analysis of a table with rows and
\* found valid
C30_Witness ==
    /\ ValidateReturned /\ dpPc = "analyzed"
    /\ analysis_dict.row_count >= 1
    /\ MentionedDepartments = {"Biologi"}
    /\ StatedTotal = 200
    /\ validation.is_valid

====
